---------------------------- MODULE Spec2Model ----------------------------
(***************************************************************************)
(* A model of the basketball shot-analysis evaluation framework:           *)
(*   ai-evaluation/src/data_manager.py  (EvaluationDataManager)            *)
(*   ai-evaluation/src/evaluator.py     (ModelEvaluator)                   *)
(*   ai-evaluation/src/metrics.py       (EvaluationMetrics)                *)
(*   python-worker/modal_app.py         (the worker endpoint analyze)      *)
(*                                                                         *)
(* The state machines of the module share one tuple of variables; each     *)
(* leaves the variables of the others idle.  SpecParse applies             *)
(* _parse_model_output to a raw text and scores the one-sample run it      *)
(* gives; SpecEval runs evaluate_model over a dataset and SpecRuns runs it *)
(* again and again on one output directory; SpecSync fetches the           *)
(* evaluation dataset (joined query or three-table fallback) and saves     *)
(* the ground-truth snapshot; SpecDownload fetches the missing videos;     *)
(* SpecSnapshot loads the snapshot and computes its statistics; SpecCost,  *)
(* SpecMatrix, SpecErrors and SpecLabels apply _estimate_cost,             *)
(* _build_confusion_matrix, generate_error_analysis and the label          *)
(* normalizers to their inputs; SpecAggregate loads the output directory   *)
(* and builds the comparison table; SpecWorker serves analyze requests.    *)
(*                                                                         *)
(* Text is a sequence of tokens.  Fence is the fence marker (three         *)
(* backquotes), "json" the                                                 *)
(* language tag, "\n" a line break, " " a blank, "{" and "}" braces, "1"   *)
(* a JSON number, "x" prose holding none of the others, and "A", "B", "C"  *)
(* the member lists of four JSON objects (ContentOf).                      *)
(* Python's None is the value None below; a dict is a TLA+ record holding  *)
(* exactly the keys the dict holds.                                        *)
(***************************************************************************)
EXTENDS Integers, Sequences, FiniteSets, TLC

VARIABLES
    raw_text,           \* SpecParse: the provider's raw text
    prediction,         \* SpecParse: what _parse_model_output returned
    ppc,                \* SpecParse: "raw" | "parsed" | "counted" | "raised"
    dataset,            \* SpecEval: the dataset given to evaluate_model
    config,             \* SpecEval: model_name, fps, media_resolution, max_samples
    provider,           \* SpecEval: the raw texts the provider answers with
    now,                \* SpecEval: time.time(), in whole seconds
    run_no,             \* SpecEval: calls of evaluate_model so far
    ground_truth_data,  \* SpecEval: evaluate_model's ground_truth_data (lines 58-60)
    video_exists,       \* SpecEval: clip_id -> whether its local file exists
    pos,                \* SpecEval: entries of the loop already taken
    results,            \* SpecEval: evaluate_model's results list
    calls,              \* SpecEval: clip_ids the provider was called for
    metrics,            \* SpecParse, SpecEval: what _calculate_metrics returned
    artifacts,          \* SpecEval: the artifact files, path -> content
    write_log,          \* SpecEval: the writes of artifact files, in order
    epc,                \* SpecEval: "loop" | "metrics" | "save" | "return" | "done" | "raised"
    analysis_tbl,       \* SpecSync: rows of the remote analysis table
    overrides_tbl,      \* SpecSync: rows of the remote analysis_overrides table
    df,                 \* SpecSync: the rows fetch_evaluation_dataset returned
    fetch_path,         \* SpecSync: "none" | "rpc" | "fallback"
    ground_truth_file,  \* SpecSync: the persisted snapshot file
    spc,                \* SpecSync: "idle" | "fetched" | "saved"
    videos_dir,         \* SpecDownload: clip_id -> state of <clip_id>.mp4
    scanned,            \* SpecDownload: videos_dir as the scan of this call saw it
    missing_videos,     \* SpecDownload: download_missing_videos' missing_videos
    downloaded,         \* SpecDownload: download_missing_videos' downloaded
    dl_pos,             \* SpecDownload: items of missing_videos already taken
    attempt_log,        \* SpecDownload: the attempts of this call and how they ended
    pass_no,            \* SpecDownload: calls of download_missing_videos so far
    dpc,                \* SpecDownload: "scan" | "download" | "done"
    loaded,             \* SpecSnapshot: how the last load_ground_truth ended
    stats,              \* SpecSnapshot: how the last get_dataset_stats ended
    save_log,           \* SpecSync, SpecSnapshot: the saves so far, in order
    sync_no,            \* SpecSnapshot: synchronization passes so far
    cost_args,          \* SpecCost: the arguments of _estimate_cost
    cost,               \* SpecCost: how _estimate_cost ended
    matrix_args,        \* SpecMatrix: the arguments of _build_confusion_matrix
    matrix,             \* SpecMatrix: how _build_confusion_matrix ended
    eval_data,          \* SpecErrors: the argument of generate_error_analysis
    errors,             \* SpecErrors: how generate_error_analysis ended
    all_results,        \* SpecAggregate: how load_evaluation_results ended
    comparison,         \* SpecAggregate: how create_comparison_dataframe ended
    label_in,           \* SpecLabels: the argument of the normalizers
    label_out,          \* SpecLabels: what the normalizers returned
    worker_token,       \* SpecWorker: the environment's WORKER_AUTH_TOKEN
    analysis_db,        \* SpecWorker: analysis id -> status of the record
    requests,           \* SpecWorker: request -> its payload, position, answer
    status_log,         \* SpecWorker: the status changes made, in order
    effects             \* SpecWorker: the calls each request has made

vars == <<raw_text, prediction, ppc, dataset, config, provider, now, run_no,
          ground_truth_data, video_exists, pos, results, calls, metrics,
          artifacts, write_log, epc, analysis_tbl, overrides_tbl, df,
          fetch_path, ground_truth_file, spc, videos_dir, scanned,
          missing_videos, downloaded, dl_pos, attempt_log, pass_no, dpc,
          loaded, stats, save_log, sync_no, cost_args, cost, matrix_args,
          matrix, eval_data, errors, all_results, comparison,
          label_in, label_out, worker_token, analysis_db, requests,
          status_log, effects>>

parseVars == <<raw_text, prediction, ppc>>
\* what a call of evaluate_model is given, and what it works on
callVars == <<dataset, config, provider, run_no, ground_truth_data,
              video_exists>>
evalVars == <<callVars, now, pos, results, calls, artifacts, write_log, epc>>
downloadVars == <<videos_dir, scanned, missing_videos, downloaded, dl_pos,
                  attempt_log, pass_no, dpc>>
snapshotVars == <<loaded, stats, save_log, sync_no>>
costVars == <<cost_args, cost>>
matrixVars == <<matrix_args, matrix>>
errorVars == <<eval_data, errors>>
\* the variables of the machines that call one function
aggVars == <<all_results, comparison>>
labelVars == <<label_in, label_out>>
workerVars == <<worker_token, analysis_db, requests, status_log, effects>>
laterVars == <<aggVars, labelVars, workerVars>>
pureVars == <<costVars, matrixVars, errorVars, laterVars>>
syncVars == <<analysis_tbl, overrides_tbl, df, fetch_path,
              ground_truth_file, spc, downloadVars, snapshotVars>>

(***************************************************************************)
(* Bounds of the model.                                                    *)
(***************************************************************************)
MaxRawLen == 4      \* every raw text of at most this many tokens is parsed
MaxEntries == 3     \* entries of a dataset
MaxOverrides == 2   \* rows of analysis_overrides
MaxRuns == 2        \* calls of evaluate_model
MaxTime == 1        \* seconds the clock advances
MaxPasses == 2      \* calls of download_missing_videos
MaxSyncs == 2       \* synchronization passes
MaxKeys == 2        \* keys of a confusion dict
MaxResults == 2     \* results of the data of a run
MaxSaved == 2       \* calls of _save_results on the output directory
MaxSamples == 2     \* results of a saved run
MaxCalls == 2       \* calls of the label normalizers
MaxRequests == 2    \* requests the worker receives

(***************************************************************************)
(* Python values.                                                          *)
(***************************************************************************)
None == "<None>"

\* `if v:` for v a string or None
Truthy(v) == v # None /\ v # ""

\* d.get(k) for a dict d
Get(d, k) == IF k \in DOMAIN d THEN d[k] ELSE None

EmptyDict == [k \in {} |-> None]

\* a JSON value as json.loads returns it: a dict, or something that is none
JObj(d) == [json |-> "object", members |-> d]
JNum == [json |-> "number"]
IsDict(v) == v.json = "object"

(***************************************************************************)
(* Token text: str.strip, str.split, str.join, str.find, str.rfind.        *)
(***************************************************************************)
Whitespace == {" ", "\n"}

\* the markdown fence marker, three backquotes
Fence == "<fence>"

RECURSIVE LStrip(_)
LStrip(s) ==
    IF s # <<>> /\ Head(s) \in Whitespace THEN LStrip(Tail(s)) ELSE s

RECURSIVE RStrip(_)
RStrip(s) ==
    IF s # <<>> /\ s[Len(s)] \in Whitespace
    THEN RStrip(SubSeq(s, 1, Len(s) - 1))
    ELSE s

Strip(s) == RStrip(LStrip(s))

\* s.split("\n"): the lines of s, one more than its line breaks
RECURSIVE Split(_)
Split(s) ==
    IF \A i \in 1..Len(s) : s[i] # "\n"
    THEN <<s>>
    ELSE LET i == CHOOSE j \in 1..Len(s) :
                      s[j] = "\n" /\ \A k \in 1..(j - 1) : s[k] # "\n"
         IN <<SubSeq(s, 1, i - 1)>> \o Split(SubSeq(s, i + 1, Len(s)))

\* "\n".join(lines)
RECURSIVE Join(_)
Join(lines) ==
    IF lines = <<>> THEN <<>>
    ELSE IF Len(lines) = 1 THEN lines[1]
    ELSE lines[1] \o <<"\n">> \o Join(Tail(lines))

StartsWith(s, tok) == s # <<>> /\ s[1] = tok

\* s.find(tok) and s.rfind(tok), 0-based, -1 when absent
Find(s, tok) ==
    IF \E i \in 1..Len(s) : s[i] = tok
    THEN (CHOOSE i \in 1..Len(s) :
              s[i] = tok /\ \A k \in 1..(i - 1) : s[k] # tok) - 1
    ELSE -1

RFind(s, tok) ==
    IF \E i \in 1..Len(s) : s[i] = tok
    THEN (CHOOSE i \in 1..Len(s) :
              s[i] = tok /\ \A k \in (i + 1)..Len(s) : s[k] # tok) - 1
    ELSE -1

\* s[a:b] for 0 <= a <= b
Slice(s, a, b) == SubSeq(s, a + 1, b)

(***************************************************************************)
(* The JSON objects a provider text can hold.                              *)
(***************************************************************************)
ContentTokens == {"A", "B", "C", "D"}

ContentOf(tok) ==
    CASE tok = "A" -> [make_miss |-> "MAKE", range |-> "LAY_UP",
                       confidence |-> 90, tips |-> <<"a", "b", "c">>]
      [] tok = "B" -> [make_miss |-> "MISS", range |-> "MID_RANGE",
                       confidence |-> 50, tips |-> <<"a", "b", "c">>]
      [] tok = "C" -> [make_miss |-> "MAKE", range |-> None,
                       confidence |-> 70, tips |-> <<>>]
      [] tok = "D" -> [make_miss |-> "MISS", range |-> "LAY_UP",
                       confidence |-> 50, tips |-> <<>>, error |-> None]

\* json.loads(text): ok with the value, or JSONDecodeError
JsonLoads(text) ==
    LET core == Strip(text)
        inner == Strip(SubSeq(core, 2, Len(core) - 1))
    IN  IF core = <<"1">>
        THEN [ok |-> TRUE, value |-> JNum]
        ELSE IF Len(core) >= 2 /\ core[1] = "{" /\ core[Len(core)] = "}"
        THEN IF inner = <<>>
             THEN [ok |-> TRUE, value |-> JObj(EmptyDict)]
             ELSE IF Len(inner) = 1 /\ inner[1] \in ContentTokens
             THEN [ok |-> TRUE, value |-> JObj(ContentOf(inner[1]))]
             ELSE [ok |-> FALSE, value |-> JNum]
        ELSE [ok |-> FALSE, value |-> JNum]

(***************************************************************************)
(* ModelEvaluator._parse_model_output                                      *)
(***************************************************************************)
\* lines 165-170: the text handed to the strict parse
CleanMarkdown(raw) ==
    LET text == Strip(raw)
        lines == Split(text)
        unfenced == IF Len(lines) > 2
                    THEN Join(SubSeq(lines, 2, Len(lines) - 1))
                    ELSE text
    IN  IF StartsWith(text, Fence)
        THEN IF StartsWith(unfenced, "json")
             THEN Strip(Tail(unfenced))
             ELSE unfenced
        ELSE text

\* lines 187-194
ErrorResult(raw) ==
    [make_miss |-> None, range |-> None, confidence |-> 0, tips |-> <<>>,
     error |-> "Failed to parse JSON", raw_output |-> raw]

\* a slip of line 178: the `+ 1` left out, which cuts the closing brace off
EndIdxAtBrace(raw) == RFind(raw, "}")

\* line 178
EndIdx(raw) == RFind(raw, "}") + 1

\* lines 176-194: the except branch
FindJsonObject(raw) ==
    LET start_idx == Find(raw, "{")
        end_idx == EndIdx(raw)
        sub == JsonLoads(Slice(raw, start_idx, end_idx))
    IN  IF start_idx >= 0 /\ end_idx > start_idx /\ sub.ok
        THEN sub.value
        ELSE JObj(ErrorResult(raw))

ParseModelOutput(raw) ==
    LET strict == JsonLoads(CleanMarkdown(raw))
    IN  IF strict.ok THEN strict.value ELSE FindJsonObject(raw)


(***************************************************************************)
(* ModelEvaluator._normalize_shot_type and _normalize_result               *)
(***************************************************************************)
\* str.upper and str.lower on the strings of the model
Upper(s) ==
    CASE s \in {"lay_up", "Lay_Up", "LAY_UP"} -> "LAY_UP"
      [] s \in {"mid_range", "MID_RANGE"} -> "MID_RANGE"
      [] s \in {"make", "Make", "MAKE"} -> "MAKE"
      [] s \in {"miss", "MISS"} -> "MISS"
      [] s \in {"dunk", "Dunk", "DUNK"} -> "DUNK"
      [] s \in {" make", " MAKE"} -> " MAKE"
      [] s \in {"medium", "MEDIUM"} -> "MEDIUM"
      [] s \in {"low", "LOW"} -> "LOW"
      [] OTHER -> s

Lower(s) ==
    CASE s \in {"lay_up", "Lay_Up", "LAY_UP"} -> "lay_up"
      [] s \in {"mid_range", "MID_RANGE"} -> "mid_range"
      [] s \in {"make", "Make", "MAKE"} -> "make"
      [] s \in {"miss", "MISS"} -> "miss"
      [] s \in {"dunk", "Dunk", "DUNK"} -> "dunk"
      [] s \in {" make", " MAKE"} -> " make"
      [] s \in {"medium", "MEDIUM"} -> "medium"
      [] s \in {"low", "LOW"} -> "low"
      [] OTHER -> s

\* lines 290-296
ShotTypeMapping ==
    [LAY_UP |-> "lay_up", IN_PAINT |-> "in_paint", MID_RANGE |-> "mid_range",
     THREE_POINTER |-> "three_pointer", FREE_THROW |-> "free_throw"]

\* lines 285-298 with None for a shot type outside the mapping
NormalizeShotTypeStrict(shot_type) ==
    IF ~Truthy(shot_type) THEN None
    ELSE IF Upper(shot_type) \in DOMAIN ShotTypeMapping
    THEN ShotTypeMapping[Upper(shot_type)]
    ELSE None

\* evaluator.py lines 285-298
NormalizeShotType(shot_type) ==
    IF ~Truthy(shot_type) THEN None
    ELSE IF Upper(shot_type) \in DOMAIN ShotTypeMapping
    THEN ShotTypeMapping[Upper(shot_type)]
    ELSE Lower(shot_type)

\* evaluator.py lines 300-311
NormalizeResult(result) ==
    IF ~Truthy(result) THEN None
    ELSE IF Upper(result) = "MAKE" THEN "make"
    ELSE IF Upper(result) = "MISS" THEN "miss"
    ELSE None

(***************************************************************************)
(* EvaluationMetrics._normalize_shot_type and _normalize_result            *)
(***************************************************************************)
\* metrics.py lines 290-296
MetricsShotTypeMapping ==
    [LAY_UP |-> "lay_up", IN_PAINT |-> "in_paint", MID_RANGE |-> "mid_range",
     THREE_POINTER |-> "three_pointer", FREE_THROW |-> "free_throw"]

\* metrics.py lines 285-298
MetricsNormalizeShotType(shot_type) ==
    IF ~Truthy(shot_type) THEN None
    ELSE IF Upper(shot_type) \in DOMAIN MetricsShotTypeMapping
    THEN MetricsShotTypeMapping[Upper(shot_type)]
    ELSE Lower(shot_type)

\* metrics.py lines 300-311
MetricsNormalizeResult(result) ==
    IF ~Truthy(result) THEN None
    ELSE IF Upper(result) = "MAKE" THEN "make"
    ELSE IF Upper(result) = "MISS" THEN "miss"
    ELSE None

(***************************************************************************)
(* ModelEvaluator._calculate_metrics                                       *)
(***************************************************************************)
\* f"{gt} -> {pred}"
ConfusionKey(gt, pred) == gt \o " -> " \o pred

\* a slip of lines 248 and 260: d[key] = 1, which does not accumulate
SetToOne(d, key) == IF key \in DOMAIN d THEN d ELSE d @@ (key :> 1)

\* d[key] = d.get(key, 0) + 1
Increment(d, key) ==
    IF key \in DOMAIN d THEN [d EXCEPT ![key] = @ + 1] ELSE d @@ (key :> 1)

\* `n / d if d else 0`, kept as the pair <<numerator, denominator>>
Ratio(n, d) == IF d # 0 THEN <<n, d>> ELSE <<0, 1>>

RECURSIVE Sum(_)
Sum(s) == IF s = <<>> THEN 0 ELSE Head(s) + Sum(Tail(s))

\* lines 219-226
MetricsStart ==
    [shot_type_correct |-> 0, result_correct |-> 0, both_correct |-> 0,
     valid_predictions |-> 0, shot_type_confusion |-> EmptyDict,
     result_confusion |-> EmptyDict, confidence_scores |-> <<>>]

\* line 263
BothCorrect(gt_shot_type, pred_shot_type, gt_result, pred_result) ==
    gt_shot_type = pred_shot_type /\ gt_result = pred_result

\* line 267: `pred.get('confidence') is not None`; a confidence of the model
\* is a number, and a dict with none has no such key
HasConfidence(pred) == "confidence" \in DOMAIN pred

\* lines 229-268: one pass of the loop body, for a prediction that is a dict
MetricsStep(acc, result) ==
    LET gt == result.ground_truth
        pred == result.prediction.members
        gt_shot_type == gt.shot_type
        pred_shot_type == NormalizeShotType(Get(pred, "range"))
        gt_result == gt.result
        pred_result == NormalizeResult(Get(pred, "make_miss"))
        shot_both == Truthy(gt_shot_type) /\ Truthy(pred_shot_type)
        result_both == Truthy(gt_result) /\ Truthy(pred_result)
    IN  IF Truthy(Get(pred, "error")) THEN acc
        ELSE [shot_type_correct |->
                  acc.shot_type_correct +
                  (IF shot_both /\ gt_shot_type = pred_shot_type THEN 1 ELSE 0),
              result_correct |->
                  acc.result_correct +
                  (IF result_both /\ gt_result = pred_result THEN 1 ELSE 0),
              both_correct |->
                  acc.both_correct +
                  (IF BothCorrect(gt_shot_type, pred_shot_type,
                                  gt_result, pred_result) THEN 1 ELSE 0),
              valid_predictions |-> acc.valid_predictions + 1,
              shot_type_confusion |->
                  IF shot_both
                  THEN Increment(acc.shot_type_confusion,
                                 ConfusionKey(gt_shot_type, pred_shot_type))
                  ELSE acc.shot_type_confusion,
              result_confusion |->
                  IF result_both
                  THEN Increment(acc.result_confusion,
                                 ConfusionKey(gt_result, pred_result))
                  ELSE acc.result_confusion,
              confidence_scores |->
                  IF HasConfidence(pred)
                  THEN Append(acc.confidence_scores, pred.confidence)
                  ELSE acc.confidence_scores]

RECURSIVE MetricsLoop(_, _)
MetricsLoop(acc, rs) ==
    IF rs = <<>> THEN acc
    ELSE MetricsLoop(MetricsStep(acc, Head(rs)), Tail(rs))

\* line 233: pred.get on a prediction that is no dict raises AttributeError
MetricsRaises(rs) == \E i \in 1..Len(rs) : ~IsDict(rs[i].prediction)

\* a slip of lines 275-277: dividing by len(results)
DenominatorTotal(total, valid_predictions) == total

\* the denominator of the three accuracies, lines 275-277
AccuracyDenominator(total, valid_predictions) == valid_predictions

\* lines 215-283, for results on which the loop does not raise
CalculateMetrics(rs) ==
    LET acc == MetricsLoop(MetricsStart, rs)
        den == AccuracyDenominator(Len(rs), acc.valid_predictions)
    IN  IF rs = <<>> THEN EmptyDict
        ELSE [total_samples |-> Len(rs),
              valid_predictions |-> acc.valid_predictions,
              parse_success_rate |-> Ratio(acc.valid_predictions, Len(rs)),
              shot_type_accuracy |-> Ratio(acc.shot_type_correct, den),
              result_accuracy |-> Ratio(acc.result_correct, den),
              both_correct_accuracy |-> Ratio(acc.both_correct, den),
              average_confidence |->
                  Ratio(Sum(acc.confidence_scores), Len(acc.confidence_scores)),
              shot_type_confusion_matrix |-> acc.shot_type_confusion,
              result_confusion_matrix |-> acc.result_confusion]


(***************************************************************************)
(* The idle values of each machine's variables.                            *)
(***************************************************************************)
\* the snapshot file: absent, or holding the entries last saved
NoFile == [exists |-> FALSE, entries |-> <<>>]

DownloadIdle ==
    /\ videos_dir = <<>>
    /\ scanned = <<>>
    /\ missing_videos = <<>>
    /\ downloaded = <<>>
    /\ dl_pos = 0
    /\ attempt_log = <<>>
    /\ pass_no = 0
    /\ dpc = "off"

\* no call of load_ground_truth or get_dataset_stats yet
NotCalled == [outcome |-> "none"]

SnapshotIdle ==
    /\ loaded = NotCalled
    /\ stats = NotCalled
    /\ save_log = <<>>
    /\ sync_no = 0

CostIdle == cost_args = None /\ cost = NotCalled
MatrixIdle == matrix_args = None /\ matrix = NotCalled
ErrorsIdle == eval_data = None /\ errors = NotCalled
AggregateIdle == all_results = NotCalled /\ comparison = NotCalled
LabelsIdle == label_in = None /\ label_out = <<>>
WorkerIdle ==
    /\ worker_token = <<>>
    /\ analysis_db = <<>>
    /\ requests = <<>>
    /\ status_log = <<>>
    /\ effects = {}
LaterIdle == AggregateIdle /\ LabelsIdle /\ WorkerIdle

ParseIdle == raw_text = <<>> /\ prediction = None /\ ppc = "idle"

\* no call of evaluate_model is under way
RunIdle ==
    /\ dataset = <<>>
    /\ config = None
    /\ provider = {}
    /\ now = 0
    /\ run_no = 0
    /\ ground_truth_data = <<>>
    /\ video_exists = <<>>
    /\ pos = 0
    /\ results = <<>>
    /\ calls = {}
    /\ epc = "idle"

EvalIdle == RunIdle /\ write_log = <<>> /\ artifacts = EmptyDict

SyncIdle ==
    /\ analysis_tbl = <<>>
    /\ overrides_tbl = <<>>
    /\ df = <<>>
    /\ fetch_path = "none"
    /\ ground_truth_file = NoFile
    /\ spc = "off"
    /\ DownloadIdle
    /\ SnapshotIdle

(***************************************************************************)
(* SpecParse: _parse_model_output on a raw text, then _calculate_metrics   *)
(* on the run holding that one sample.                                     *)
(***************************************************************************)
Alphabet == {Fence, "json", "\n", " ", "{", "}", "1", "x", "A"}

ShortTexts == UNION {[1..n -> Alphabet] : n \in 0..MaxRawLen}

\* json.dumps of the object with members c (None: no members), compact or
\* indented
Dumps(c, indent) ==
    IF c = None THEN <<"{", "}">>
    ELSE IF indent THEN <<"{", "\n", " ", c, "\n", "}">>
    ELSE <<"{", c, "}">>

\* a text between an opening fence line, with the tag, and a closing one
FenceWrap(tag, text) == <<Fence>> \o tag \o <<"\n">> \o text \o <<"\n", Fence>>

Tags == {<<>>, <<"json">>}
Pads == {<<>>, <<"x">>, <<" ">>, <<"\n">>, <<"x", "\n">>}
ObjectTexts == {Dumps(c, i) : c \in ContentTokens \cup {None}, i \in BOOLEAN}

WrappedTexts ==
    {pre \o body \o post :
        pre \in Pads, post \in Pads,
        body \in ObjectTexts \cup
                 {FenceWrap(t, o) : t \in Tags, o \in ObjectTexts}}

RawTexts == ShortTexts \cup WrappedTexts

ParseGroundTruth == [shot_type |-> "lay_up", result |-> "make"]

InitParse ==
    /\ raw_text \in RawTexts
    /\ prediction = None
    /\ ppc = "raw"
    /\ metrics = None
    /\ EvalIdle
    /\ SyncIdle
    /\ CostIdle
    /\ MatrixIdle
    /\ ErrorsIdle
    /\ LaterIdle

\* evaluator.py line 154
Parse ==
    /\ ppc = "raw"
    /\ prediction' = ParseModelOutput(raw_text)
    /\ ppc' = "parsed"
    /\ UNCHANGED <<raw_text, metrics, evalVars, syncVars,
                   pureVars>>

\* evaluator.py line 100, for results holding the one sample
Score ==
    /\ ppc = "parsed"
    /\ LET rs == <<[clip_id |-> 1, ground_truth |-> ParseGroundTruth,
                    prediction |-> prediction]>>
       IN  IF MetricsRaises(rs)
           THEN ppc' = "raised" /\ UNCHANGED metrics
           ELSE ppc' = "counted" /\ metrics' = CalculateMetrics(rs)
    /\ UNCHANGED <<raw_text, prediction, evalVars, syncVars,
                   pureVars>>

NextParse == Parse \/ Score

SpecParse == InitParse /\ [][NextParse]_vars


(***************************************************************************)
(* SpecEval: ModelEvaluator.evaluate_model over a dataset.                 *)
(***************************************************************************)
GroundTruths ==
    {[shot_type |-> "lay_up", result |-> "make"],
     [shot_type |-> "mid_range", result |-> "miss"],
     [shot_type |-> None, result |-> "make"]}

\* entry i of a dataset has clip_id i
Datasets ==
    UNION {{[i \in 1..n |-> [clip_id |-> i, ground_truth |-> g[i]]] :
                g \in [1..n -> GroundTruths]} : n \in 0..MaxEntries}

\* the raw texts the provider answers with
ProviderTexts ==
    {Dumps("A", FALSE), FenceWrap(<<"json">>, Dumps("B", TRUE)),
     <<"x", " ">> \o Dumps("C", FALSE) \o <<"\n", "x">>, <<"x">>, <<"1">>}

\* a model name is a text of tokens
ModelName == <<"models", "/", "gemini-2.5-flash">>

\* max_samples: Optional[int] = None.  NoLimit is None, <<n>> the integer n
NoLimit == <<>>

\* lines 38-40: the defaults of fps, media_resolution and max_samples
DefaultConfig ==
    [model_name |-> ModelName, prompt |-> "prompt", fps |-> 24,
     media_resolution |-> "MEDIUM", max_samples |-> NoLimit]

\* s[:n], the slice of Python
SliceTo(s, n) ==
    IF n >= 0 THEN SubSeq(s, 1, IF n < Len(s) THEN n ELSE Len(s))
    ELSE SubSeq(s, 1, IF Len(s) + n > 0 THEN Len(s) + n ELSE 0)

\* line 58: if max_samples
LimitGiven(max_samples) == max_samples # NoLimit /\ max_samples[1] # 0

\* lines 58-60
TruncateSamples(data, max_samples) ==
    IF LimitGiven(max_samples) THEN SliceTo(data, max_samples[1]) ELSE data

InitEval ==
    /\ dataset \in Datasets
    /\ config = DefaultConfig
    /\ provider = ProviderTexts
    /\ now = 0
    /\ run_no = 1
    /\ ground_truth_data = TruncateSamples(dataset, config.max_samples)
    /\ video_exists \in [1..Len(dataset) -> BOOLEAN]
    /\ pos = 0
    /\ results = <<>>
    /\ calls = {}
    /\ metrics = None
    /\ artifacts = EmptyDict
    /\ write_log = <<>>
    /\ epc = "loop"
    /\ ParseIdle
    /\ CostIdle
    /\ MatrixIdle
    /\ ErrorsIdle
    /\ LaterIdle
    /\ SyncIdle

Entry == ground_truth_data[pos + 1]

InLoop == epc = "loop" /\ pos < Len(ground_truth_data)

\* lines 69-71: the video file is absent
SkipMissingVideo ==
    /\ InLoop
    /\ ~video_exists[Entry.clip_id]
    /\ pos' = pos + 1
    /\ UNCHANGED <<callVars, now, results, calls, metrics, artifacts,
                   write_log, epc, parseVars, syncVars,
                   pureVars>>

\* lines 73-79 and 95-97: _run_inference raises, reading the file (line 125)
\* or calling the provider (line 136)
InferenceFails ==
    /\ InLoop
    /\ video_exists[Entry.clip_id]
    /\ \E called \in BOOLEAN :
           calls' = IF called THEN calls \cup {Entry.clip_id} ELSE calls
    /\ pos' = pos + 1
    /\ UNCHANGED <<callVars, now, results, metrics, artifacts, write_log,
                   epc, parseVars, syncVars,
                   pureVars>>

\* lines 82-91
SampleResult(entry, pred) ==
    [clip_id |-> entry.clip_id, ground_truth |-> entry.ground_truth,
     prediction |-> pred, model_name |-> config.model_name,
     fps |-> config.fps, media_resolution |-> config.media_resolution]

\* lines 73-93: _run_inference returns
InferenceReturns ==
    /\ InLoop
    /\ video_exists[Entry.clip_id]
    /\ \E raw \in provider :
           results' = Append(results, SampleResult(Entry, ParseModelOutput(raw)))
    /\ calls' = calls \cup {Entry.clip_id}
    /\ pos' = pos + 1
    /\ UNCHANGED <<callVars, now, metrics, artifacts, write_log, epc,
                   parseVars, syncVars,
                   pureVars>>

\* line 100
ComputeMetrics ==
    /\ epc = "loop"
    /\ pos = Len(ground_truth_data)
    /\ IF MetricsRaises(results)
       THEN epc' = "raised" /\ UNCHANGED metrics
       ELSE epc' = "save" /\ metrics' = CalculateMetrics(results)
    /\ UNCHANGED <<callVars, now, pos, results, calls, artifacts, write_log,
                   parseVars, syncVars,
                   pureVars>>

\* str.replace on a text of tokens
RECURSIVE Replace(_, _, _)
Replace(s, old, new) ==
    IF Len(s) < Len(old) THEN s
    ELSE IF SubSeq(s, 1, Len(old)) = old
    THEN new \o Replace(SubSeq(s, Len(old) + 1, Len(s)), old, new)
    ELSE <<Head(s)>> \o Replace(Tail(s), old, new)

\* line 324: the name of the model's directory
ModelDir(model_name) ==
    Replace(Replace(model_name, <<"/">>, <<"_">>), <<"models", "_">>, <<>>)

\* lines 324-329 and 344: output_dir / model_dir /
\* eval_{timestamp}_fps{fps}_{media_resolution.lower()}.json
OutputPath(c, timestamp) ==
    [model_dir |-> ModelDir(c.model_name),
     filename |-> <<"eval", timestamp, "fps", c.fps,
                    Lower(c.media_resolution), "json">>]

\* lines 332-342
OutputData(c, timestamp, m, rs) ==
    [model_name |-> c.model_name,
     evaluation_timestamp |-> timestamp,
     configuration |-> [fps |-> c.fps,
                        media_resolution |-> c.media_resolution,
                        prompt |-> c.prompt],
     metrics |-> m,
     results |-> rs]

\* lines 345-346: open(output_path, 'w') and json.dump
WriteFile(files, path, content) ==
    [p \in DOMAIN files \cup {path} |->
        IF p = path THEN content ELSE files[p]]

\* line 103, lines 313-348
SaveResults ==
    /\ epc = "save"
    /\ LET timestamp == now
           output_path == OutputPath(config, timestamp)
       IN  /\ artifacts' = WriteFile(artifacts, output_path,
                                     OutputData(config, timestamp, metrics,
                                                results))
           /\ write_log' = Append(write_log,
                                  [run |-> run_no, path |-> output_path,
                                   content |-> OutputData(config, timestamp,
                                                          metrics, results)])
    /\ epc' = "return"
    /\ UNCHANGED <<callVars, now, pos, results, calls, metrics, parseVars,
                   syncVars,
                   pureVars>>

\* line 109: sum(...) / len(results) raises ZeroDivisionError
ReturnRaises(rs) == Len(rs) = 0

\* lines 105-112
ReturnResult ==
    /\ epc = "return"
    /\ epc' = IF ReturnRaises(results) THEN "raised" ELSE "done"
    /\ UNCHANGED <<callVars, now, pos, results, calls, metrics, artifacts,
                   write_log, parseVars, syncVars,
                   pureVars>>

NextEval ==
    \/ SkipMissingVideo
    \/ InferenceFails
    \/ InferenceReturns
    \/ ComputeMetrics
    \/ SaveResults
    \/ ReturnResult

SpecEval == InitEval /\ [][NextEval]_vars

(***************************************************************************)
(* SpecRuns: several calls of evaluate_model, one after the other, on one  *)
(* dataset, each with its own configuration, while the clock advances.     *)
(***************************************************************************)
ModelNames == {ModelName, <<"gemini-2.5-flash">>}

Configs ==
    [model_name : ModelNames, prompt : {"prompt"}, fps : {24, 30},
     media_resolution : {"MEDIUM", "medium"},
     max_samples : {NoLimit, <<0>>, <<1>>, <<2>>}]

RunDatasets ==
    {d \in Datasets :
        \A i \in 1..Len(d) :
            d[i].ground_truth = [shot_type |-> "lay_up", result |-> "make"]}

RunProviderTexts == {Dumps("A", FALSE)}

InitRuns ==
    /\ dataset \in RunDatasets
    /\ config \in Configs
    /\ provider = RunProviderTexts
    /\ now = 0
    /\ run_no = 1
    /\ ground_truth_data = TruncateSamples(dataset, config.max_samples)
    /\ video_exists \in [1..Len(dataset) -> BOOLEAN]
    /\ pos = 0
    /\ results = <<>>
    /\ calls = {}
    /\ metrics = None
    /\ artifacts = EmptyDict
    /\ write_log = <<>>
    /\ epc = "loop"
    /\ ParseIdle
    /\ CostIdle
    /\ MatrixIdle
    /\ ErrorsIdle
    /\ LaterIdle
    /\ SyncIdle

\* time.time() (lines 75, 79, 328) has moved on by a second
Tick ==
    /\ now < MaxTime
    /\ now' = now + 1
    /\ UNCHANGED <<callVars, pos, results, calls, metrics, artifacts,
                   write_log, epc, parseVars, syncVars,
                   pureVars>>

\* lines 33-63: the next call of evaluate_model, after the last one ended
EvaluateModel ==
    /\ epc \in {"done", "raised"}
    /\ run_no < MaxRuns
    /\ \E c \in Configs :
           /\ config' = c
           /\ ground_truth_data' = TruncateSamples(dataset, c.max_samples)
    /\ run_no' = run_no + 1
    /\ pos' = 0
    /\ results' = <<>>
    /\ calls' = {}
    /\ metrics' = None
    /\ epc' = "loop"
    /\ UNCHANGED <<dataset, provider, video_exists, now, artifacts,
                   write_log, parseVars, syncVars,
                   pureVars>>

NextRuns == NextEval \/ Tick \/ EvaluateModel

SpecRuns == InitRuns /\ [][NextRuns]_vars


(***************************************************************************)
(* SpecSync: EvaluationDataManager.fetch_evaluation_dataset and            *)
(* save_ground_truth over a content of the remote store.                   *)
(***************************************************************************)
\* the clips table, in the order the store returns it
Clips ==
    <<[id |-> "c1", storage_key |-> "k1", duration_s |-> 4, created_at |-> 1],
      [id |-> "c2", storage_key |-> "k2", duration_s |-> 6, created_at |-> 2]>>

ClipIds == {Clips[i].id : i \in 1..Len(Clips)}
AnalysisIds == {"a1", "a2"}
FieldNames == {"shot_type", "result"}
Times == {1, 2}

\* what the worker wrote as analysis a's shot_type and result
OriginalOf(a) ==
    IF a = "a1" THEN [shot_type |-> "lay_up", result |-> "make"]
    ELSE [shot_type |-> "mid_range", result |-> "miss"]

AnalysisRows ==
    {[id |-> a, clip_id |-> c, status |-> st,
      shot_type |-> OriginalOf(a).shot_type, result |-> OriginalOf(a).result] :
        a \in AnalysisIds, c \in ClipIds, st \in {"success", "failed"}}

OverrideValues(field) ==
    IF field = "shot_type" THEN {"three_pointer", "in_paint"}
    ELSE {"miss", "make"}

OverrideRows ==
    UNION {{[analysis_id |-> a, field_name |-> f, override_value |-> v,
             created_at |-> t] :
                a \in AnalysisIds, v \in OverrideValues(f), t \in Times} :
           f \in FieldNames}

\* the tables with at most n rows; an analysis id is a primary key
AnalysisTables ==
    {tbl \in UNION {[1..n -> AnalysisRows] : n \in 0..Cardinality(AnalysisIds)} :
        \A i, j \in 1..Len(tbl) : i # j => tbl[i].id # tbl[j].id}

OverrideTables == UNION {[1..n -> OverrideRows] : n \in 0..MaxOverrides}

InitSync ==
    /\ analysis_tbl \in AnalysisTables
    /\ overrides_tbl \in OverrideTables
    /\ df = <<>>
    /\ fetch_path = "none"
    /\ ground_truth_file = NoFile
    /\ spc = "idle"
    /\ metrics = None
    /\ ParseIdle
    /\ CostIdle
    /\ MatrixIdle
    /\ ErrorsIdle
    /\ LaterIdle
    /\ EvalIdle
    /\ DownloadIdle
    /\ SnapshotIdle

\* WHERE a.status = 'success' (line 64) and .eq('status', 'success') (line 75)
IsSuccess(row) == row.status = "success"
SuccessfulAnalysis(tbl) == SelectSeq(tbl, IsSuccess)

\* one row of the dataset, lines 39-61 and 109-122
CombinedRow(clip, analysis, gt_shot_type, gt_result) ==
    [clip_id |-> clip.id,
     storage_key |-> clip.storage_key,
     duration_s |-> clip.duration_s,
     clip_created_at |-> clip.created_at,
     analysis_id |-> analysis.id,
     original_shot_type |-> analysis.shot_type,
     original_result |-> analysis.result,
     ground_truth_shot_type |-> gt_shot_type,
     ground_truth_result |-> gt_result]

(***************************************************************************)
(* The joined query, lines 38-66.                                          *)
(***************************************************************************)
\* ORDER BY c.created_at DESC (line 65)
RECURSIVE OrderByCreatedDesc(_)
OrderByCreatedDesc(rows) ==
    IF rows = <<>> THEN <<>>
    ELSE LET i == CHOOSE j \in 1..Len(rows) :
                      \A k \in 1..Len(rows) :
                          /\ rows[k].created_at <= rows[j].created_at
                          /\ (rows[k].created_at = rows[j].created_at => j <= k)
             rest == [k \in 1..(Len(rows) - 1) |->
                          IF k < i THEN rows[k] ELSE rows[k + 1]]
         IN <<rows[i]>> \o OrderByCreatedDesc(rest)

\* FROM clips c JOIN analysis a ON c.id = a.clip_id WHERE a.status = 'success'
RECURSIVE JoinClips(_, _)
JoinClips(clips, analysis) ==
    IF clips = <<>> THEN <<>>
    ELSE LET c == Head(clips)
             OfClip(a) == a.clip_id = c.id
             mine == SelectSeq(SuccessfulAnalysis(analysis), OfClip)
         IN [i \in 1..Len(mine) |-> [clip |-> c, analysis |-> mine[i]]]
            \o JoinClips(Tail(clips), analysis)

\* the values `SELECT override_value ... ORDER BY created_at DESC LIMIT 1` can
\* return, lines 51-53 and 57-59: with several newest rows, any of them
NewestValues(overrides, analysis_id, field_name) ==
    LET mine == {i \in 1..Len(overrides) :
                    /\ overrides[i].analysis_id = analysis_id
                    /\ overrides[i].field_name = field_name}
    IN {overrides[i].override_value :
            i \in {j \in mine : \A k \in mine :
                       overrides[k].created_at <= overrides[j].created_at}}

\* COALESCE(<subquery>, original), lines 50-61
Coalesce(values, original) == IF values = {} THEN {original} ELSE values

\* response.data of the rpc call, line 69-70: any of the results of the query
JoinedQueryResults(analysis, overrides) ==
    LET joined == JoinClips(OrderByCreatedDesc(Clips), analysis)
        n == Len(joined)
        Shot(i) == Coalesce(NewestValues(overrides, joined[i].analysis.id,
                                         "shot_type"),
                            joined[i].analysis.shot_type)
        Result(i) == Coalesce(NewestValues(overrides, joined[i].analysis.id,
                                           "result"),
                              joined[i].analysis.result)
    IN {[i \in 1..n |-> CombinedRow(joined[i].clip, joined[i].analysis,
                                    st[i], rs[i])] :
            st \in {f \in [1..n -> UNION {Shot(i) : i \in 1..n}] :
                        \A i \in 1..n : f[i] \in Shot(i)},
            rs \in {f \in [1..n -> UNION {Result(i) : i \in 1..n}] :
                        \A i \in 1..n : f[i] \in Result(i)}}

(***************************************************************************)
(* EvaluationDataManager._process_fallback_data, lines 86-125.             *)
(***************************************************************************)
NoRow == [id |-> None]

\* line 90: {analysis['clip_id']: analysis for analysis in analysis_data}
RECURSIVE AnalysisDict(_, _)
AnalysisDict(analysis_data, clip_id) ==
    IF analysis_data = <<>> THEN NoRow
    ELSE LET last == analysis_data[Len(analysis_data)]
         IN IF last.clip_id = clip_id THEN last
            ELSE AnalysisDict(SubSeq(analysis_data, 1, Len(analysis_data) - 1),
                              clip_id)

\* a slip of line 96: `<` for `>` keeps the oldest override
Older(created_at, kept_created_at) == created_at < kept_created_at

\* line 96: override['created_at'] > overrides_dict[key]['created_at']
Newer(created_at, kept_created_at) == created_at > kept_created_at

\* lines 93-97: overrides_dict.get(key) after the loop
RECURSIVE OverridesDict(_, _, _)
OverridesDict(overrides_data, key, kept) ==
    IF overrides_data = <<>> THEN kept
    ELSE LET override == Head(overrides_data)
             mine == <<override.analysis_id, override.field_name>> = key
         IN OverridesDict(
                Tail(overrides_data), key,
                IF mine /\ (kept = NoRow
                            \/ Newer(override.created_at, kept.created_at))
                THEN [id |-> "override"] @@ override
                ELSE kept)

\* lines 99-125
RECURSIVE CombineData(_, _, _)
CombineData(clips, analysis_data, overrides_data) ==
    IF clips = <<>> THEN <<>>
    ELSE LET clip == Head(clips)
             analysis == AnalysisDict(analysis_data, clip.id)
             shot_type_override ==
                 OverridesDict(overrides_data, <<analysis.id, "shot_type">>, NoRow)
             result_override ==
                 OverridesDict(overrides_data, <<analysis.id, "result">>, NoRow)
         IN (IF analysis # NoRow
             THEN <<CombinedRow(
                      clip, analysis,
                      IF shot_type_override # NoRow
                      THEN shot_type_override.override_value
                      ELSE analysis.shot_type,
                      IF result_override # NoRow
                      THEN result_override.override_value
                      ELSE analysis.result)>>
             ELSE <<>>)
            \o CombineData(Tail(clips), analysis_data, overrides_data)

ProcessFallbackData(clips_data, analysis_data, overrides_data) ==
    CombineData(clips_data, analysis_data, overrides_data)

(***************************************************************************)
(* EvaluationDataManager.save_ground_truth, lines 171-202.                 *)
(***************************************************************************)
GroundTruthEntry(row) ==
    [clip_id |-> row.clip_id,
     storage_key |-> row.storage_key,
     duration_s |-> row.duration_s,
     video_path |-> <<"videos", row.clip_id, ".mp4">>,
     ground_truth |-> [shot_type |-> row.ground_truth_shot_type,
                       result |-> row.ground_truth_result],
     original_analysis |-> [shot_type |-> row.original_shot_type,
                            result |-> row.original_result],
     metadata |-> [analysis_id |-> row.analysis_id,
                   clip_created_at |-> row.clip_created_at]]

\* lines 68-70: the rpc call answers
FetchRpc ==
    /\ spc = "idle"
    /\ df' \in JoinedQueryResults(analysis_tbl, overrides_tbl)
    /\ fetch_path' = "rpc"
    /\ spc' = "fetched"
    /\ UNCHANGED <<analysis_tbl, overrides_tbl, ground_truth_file, metrics,
                   parseVars, evalVars, downloadVars, snapshotVars,
                   pureVars>>

\* lines 71-79: the rpc call raises
FetchFallback ==
    /\ spc = "idle"
    /\ df' = ProcessFallbackData(Clips, SuccessfulAnalysis(analysis_tbl),
                                 overrides_tbl)
    /\ fetch_path' = "fallback"
    /\ spc' = "fetched"
    /\ UNCHANGED <<analysis_tbl, overrides_tbl, ground_truth_file, metrics,
                   parseVars, evalVars, downloadVars, snapshotVars,
                   pureVars>>

\* json.dump and json.load of a value that is a str or None
DumpOptional(v) ==
    IF v = None THEN [json |-> "null"] ELSE [json |-> "string", s |-> v]
LoadOptional(j) == IF j.json = "null" THEN None ELSE j.s

\* json.dump and json.load of a str and of a number
DumpString(v) == [json |-> "string", s |-> v]
LoadString(j) == j.s
DumpNumber(v) == [json |-> "number", n |-> v]
LoadNumber(j) == j.n

\* line 200: json.dump of one entry
DumpEntry(e) ==
    [clip_id |-> DumpString(e.clip_id),
     storage_key |-> DumpString(e.storage_key),
     duration_s |-> DumpNumber(e.duration_s),
     video_path |-> DumpString(e.video_path),
     ground_truth |-> [shot_type |-> DumpOptional(e.ground_truth.shot_type),
                       result |-> DumpOptional(e.ground_truth.result)],
     original_analysis |->
         [shot_type |-> DumpOptional(e.original_analysis.shot_type),
          result |-> DumpOptional(e.original_analysis.result)],
     metadata |-> [analysis_id |-> DumpString(e.metadata.analysis_id),
                   clip_created_at |-> DumpNumber(e.metadata.clip_created_at)]]

\* line 210: json.load of one entry
LoadEntry(j) ==
    [clip_id |-> LoadString(j.clip_id),
     storage_key |-> LoadString(j.storage_key),
     duration_s |-> LoadNumber(j.duration_s),
     video_path |-> LoadString(j.video_path),
     ground_truth |-> [shot_type |-> LoadOptional(j.ground_truth.shot_type),
                       result |-> LoadOptional(j.ground_truth.result)],
     original_analysis |->
         [shot_type |-> LoadOptional(j.original_analysis.shot_type),
          result |-> LoadOptional(j.original_analysis.result)],
     metadata |-> [analysis_id |-> LoadString(j.metadata.analysis_id),
                   clip_created_at |-> LoadNumber(j.metadata.clip_created_at)]]

\* lines 173-197: the entries of the rows
GroundTruthOf(rows) == [i \in 1..Len(rows) |-> GroundTruthEntry(rows[i])]

\* a file opened with 'a': what the file held stays in front
AppendedTo(held, written) == held \o written

\* line 199: a file opened with 'w' holds what is written, nothing else
WrittenOver(held, written) == written

\* lines 171-202
SaveGroundTruth ==
    /\ spc = "fetched"
    /\ LET ground_truth == GroundTruthOf(df)
           written == [i \in 1..Len(ground_truth) |->
                          DumpEntry(ground_truth[i])]
       IN  /\ ground_truth_file' =
                  [exists |-> TRUE,
                   entries |-> WrittenOver(ground_truth_file.entries, written)]
           /\ save_log' = Append(save_log, [rows |-> df,
                                            entries |-> ground_truth_file'.entries])
    /\ spc' = "saved"
    /\ UNCHANGED <<analysis_tbl, overrides_tbl, df, fetch_path, metrics,
                   parseVars, evalVars, downloadVars, loaded, stats, sync_no,
                   pureVars>>

NextSync == FetchRpc \/ FetchFallback \/ SaveGroundTruth

SpecSync == InitSync /\ [][NextSync]_vars

(***************************************************************************)
(* SpecDownload: EvaluationDataManager.download_missing_videos, called     *)
(* again and again on the rows of one fetch.                               *)
(***************************************************************************)
\* the rows fetch_evaluation_dataset returns over the stores without overrides
DownloadFrames ==
    UNION {JoinedQueryResults(a, <<>>)
               \cup {ProcessFallbackData(Clips, SuccessfulAnalysis(a), <<>>)} :
           a \in AnalysisTables}

\* how an attempt ends: create_signed_url raises (line 151), the GET or
\* raise_for_status raises (lines 155-156), open raises (line 160), write
\* raises after open has created or emptied the file (line 161), or none does
Outcomes == {"url_failed", "fetch_failed", "open_failed", "write_failed", "ok"}

InitDownload ==
    /\ df \in DownloadFrames
    /\ videos_dir = [c \in ClipIds |-> "absent"]
    /\ scanned = videos_dir
    /\ missing_videos = <<>>
    /\ downloaded = <<>>
    /\ dl_pos = 0
    /\ attempt_log = <<>>
    /\ pass_no = 1
    /\ dpc = "scan"
    /\ analysis_tbl = <<>>
    /\ overrides_tbl = <<>>
    /\ fetch_path = "none"
    /\ ground_truth_file = NoFile
    /\ spc = "off"
    /\ SnapshotIdle
    /\ metrics = None
    /\ ParseIdle
    /\ CostIdle
    /\ MatrixIdle
    /\ ErrorsIdle
    /\ LaterIdle
    /\ EvalIdle

\* line 139 (and evaluator.py line 69): video_path.exists()
Exists(files, clip_id) == files[clip_id] # "absent"

\* lines 135-140
RECURSIVE MissingVideos(_, _)
MissingVideos(rows, files) ==
    IF rows = <<>> THEN <<>>
    ELSE (IF ~Exists(files, Head(rows).clip_id)
          THEN <<[clip_id |-> Head(rows).clip_id,
                  storage_key |-> Head(rows).storage_key]>>
          ELSE <<>>) \o MissingVideos(Tail(rows), files)

\* lines 132-146: the scan; with nothing missing the call returns []
ScanMissing ==
    /\ dpc = "scan"
    /\ scanned' = videos_dir
    /\ missing_videos' = MissingVideos(df, videos_dir)
    /\ dpc' = IF missing_videos' = <<>> THEN "done" ELSE "download"
    /\ UNCHANGED <<videos_dir, downloaded, dl_pos, attempt_log, pass_no,
                   analysis_tbl, overrides_tbl, df, fetch_path,
                   ground_truth_file, spc, metrics, parseVars, evalVars,
                   snapshotVars,
                   pureVars>>

\* lines 159-161: the file after the attempt
FileAfter(file, outcome) ==
    CASE outcome = "ok" -> "complete"
      [] outcome = "write_failed" -> "partial"
      [] OTHER -> file

\* line 163, inside the try: downloaded.append(clip_id)
AppendAlways(list, clip_id, outcome) == Append(list, clip_id)

\* line 163, inside the try: downloaded.append(clip_id)
AppendDownloaded(list, clip_id, outcome) ==
    IF outcome = "ok" THEN Append(list, clip_id) ELSE list

\* lines 148-166: one item of missing_videos
DownloadItem ==
    /\ dpc = "download"
    /\ dl_pos < Len(missing_videos)
    /\ LET clip_id == missing_videos[dl_pos + 1].clip_id
       IN  \E outcome \in Outcomes :
               /\ videos_dir' =
                      [videos_dir EXCEPT
                          ![clip_id] = FileAfter(videos_dir[clip_id], outcome)]
               /\ downloaded' = AppendDownloaded(downloaded, clip_id, outcome)
               /\ attempt_log' =
                      Append(attempt_log,
                             [clip_id |-> clip_id, outcome |-> outcome])
    /\ dl_pos' = dl_pos + 1
    /\ UNCHANGED <<scanned, missing_videos, pass_no, dpc, analysis_tbl,
                   overrides_tbl, df, fetch_path, ground_truth_file, spc,
                   metrics, parseVars, evalVars, snapshotVars,
                   pureVars>>

\* lines 168-169: return downloaded
ReturnDownloaded ==
    /\ dpc = "download"
    /\ dl_pos = Len(missing_videos)
    /\ dpc' = "done"
    /\ UNCHANGED <<videos_dir, scanned, missing_videos, downloaded, dl_pos,
                   attempt_log, pass_no, analysis_tbl, overrides_tbl, df,
                   fetch_path, ground_truth_file, spc, metrics, parseVars,
                   evalVars, snapshotVars,
                   pureVars>>

\* lines 127-133: the next call of download_missing_videos on the same rows
DownloadAgain ==
    /\ dpc = "done"
    /\ pass_no < MaxPasses
    /\ pass_no' = pass_no + 1
    /\ scanned' = videos_dir
    /\ missing_videos' = <<>>
    /\ downloaded' = <<>>
    /\ dl_pos' = 0
    /\ attempt_log' = <<>>
    /\ dpc' = "scan"
    /\ UNCHANGED <<videos_dir, analysis_tbl, overrides_tbl, df, fetch_path,
                   ground_truth_file, spc, metrics, parseVars, evalVars,
                   snapshotVars,
                   pureVars>>

NextDownload ==
    \/ ScanMissing
    \/ DownloadItem
    \/ ReturnDownloaded
    \/ DownloadAgain

SpecDownload == InitDownload /\ [][NextDownload]_vars

(***************************************************************************)
(* SpecSnapshot: synchronization passes (fetch, save_ground_truth) over a  *)
(* remote store that changes between the passes, with load_ground_truth    *)
(* and get_dataset_stats called in between.                                *)
(***************************************************************************)
\* contents of the remote store: no analysis, one clip analysed, both clips
\* analysed, one clip analysed twice; no override, a correction of a1's
\* shot_type, an override of a1's result by the value it has
SnapshotStores ==
    [analysis :
         {<<>>,
          <<[id |-> "a1", clip_id |-> "c1", status |-> "success",
             shot_type |-> OriginalOf("a1").shot_type,
             result |-> OriginalOf("a1").result]>>,
          <<[id |-> "a1", clip_id |-> "c1", status |-> "success",
             shot_type |-> OriginalOf("a1").shot_type,
             result |-> OriginalOf("a1").result],
            [id |-> "a2", clip_id |-> "c2", status |-> "success",
             shot_type |-> OriginalOf("a2").shot_type,
             result |-> OriginalOf("a2").result]>>,
          <<[id |-> "a1", clip_id |-> "c1", status |-> "success",
             shot_type |-> OriginalOf("a1").shot_type,
             result |-> OriginalOf("a1").result],
            [id |-> "a2", clip_id |-> "c1", status |-> "failed",
             shot_type |-> OriginalOf("a2").shot_type,
             result |-> OriginalOf("a2").result]>>},
     overrides :
         {<<>>,
          <<[analysis_id |-> "a1", field_name |-> "shot_type",
             override_value |-> "three_pointer", created_at |-> 1]>>,
          <<[analysis_id |-> "a1", field_name |-> "result",
             override_value |-> "make", created_at |-> 1]>>,
          <<[analysis_id |-> "a2", field_name |-> "result",
             override_value |-> "make", created_at |-> 1],
            [analysis_id |-> "a1", field_name |-> "shot_type",
             override_value |-> "in_paint", created_at |-> 2]>>}]

InitSnapshot ==
    /\ \E store \in SnapshotStores :
           /\ analysis_tbl = store.analysis
           /\ overrides_tbl = store.overrides
    /\ df = <<>>
    /\ fetch_path = "none"
    /\ ground_truth_file = NoFile
    /\ spc = "idle"
    /\ loaded = NotCalled
    /\ stats = NotCalled
    /\ save_log = <<>>
    /\ sync_no = 1
    /\ videos_dir = [c \in ClipIds |-> IF c = "c1" THEN "complete" ELSE "absent"]
    /\ scanned = <<>>
    /\ missing_videos = <<>>
    /\ downloaded = <<>>
    /\ dl_pos = 0
    /\ attempt_log = <<>>
    /\ pass_no = 0
    /\ dpc = "off"
    /\ metrics = None
    /\ ParseIdle
    /\ CostIdle
    /\ MatrixIdle
    /\ ErrorsIdle
    /\ LaterIdle
    /\ EvalIdle

\* lines 204-210: what load_ground_truth returns, if it does not raise
LoadGroundTruthOf(file) ==
    [i \in 1..Len(file.entries) |-> LoadEntry(file.entries[i])]

\* lines 204-210
LoadGroundTruth ==
    /\ spc \in {"idle", "fetched", "saved"}
    /\ loaded' =
           IF ~ground_truth_file.exists
           THEN [outcome |-> "FileNotFoundError", saves |-> Len(save_log)]
           ELSE [outcome |-> "returned", saves |-> Len(save_log),
                 value |-> LoadGroundTruthOf(ground_truth_file)]
    /\ UNCHANGED <<analysis_tbl, overrides_tbl, df, fetch_path,
                   ground_truth_file, spc, stats, save_log, sync_no, metrics,
                   parseVars, evalVars, downloadVars,
                   pureVars>>

\* lines 238-239: the entry's ground truth differs from the original analysis
HasUserCorrection(entry) ==
    \/ entry.ground_truth.shot_type # entry.original_analysis.shot_type
    \/ entry.ground_truth.result # entry.original_analysis.result

\* lines 219-226
StatsStart(ground_truth) ==
    [total_clips |-> Len(ground_truth),
     shot_type_distribution |-> EmptyDict,
     result_distribution |-> EmptyDict,
     has_user_corrections |-> 0,
     average_duration |-> 0,
     videos_downloaded |-> 0]

\* lines 228-247
RECURSIVE StatsLoop(_, _, _)
StatsLoop(acc, ground_truth, files) ==
    IF ground_truth = <<>> THEN acc
    ELSE LET entry == Head(ground_truth)
         IN  StatsLoop(
                 [acc EXCEPT
                     !.shot_type_distribution =
                         Increment(@, entry.ground_truth.shot_type),
                     !.result_distribution =
                         Increment(@, entry.ground_truth.result),
                     !.has_user_corrections =
                         IF HasUserCorrection(entry) THEN @ + 1 ELSE @,
                     !.average_duration = @ + entry.duration_s,
                     !.videos_downloaded =
                         IF Exists(files, entry.clip_id) THEN @ + 1 ELSE @],
                 Tail(ground_truth), files)

\* lines 249-250: the two divisions by len(ground_truth)
StatsRaises(ground_truth) == Len(ground_truth) = 0

\* lines 219-252, for a snapshot with entries
DatasetStats(ground_truth, files) ==
    LET acc == StatsLoop(StatsStart(ground_truth), ground_truth, files)
        n == Len(ground_truth)
    IN  [total_clips |-> acc.total_clips,
         shot_type_distribution |-> acc.shot_type_distribution,
         result_distribution |-> acc.result_distribution,
         has_user_corrections |-> acc.has_user_corrections,
         average_duration |-> <<acc.average_duration, n>>,
         videos_downloaded |-> acc.videos_downloaded,
         correction_rate |-> <<acc.has_user_corrections, n>>]

\* lines 212-252
GetDatasetStats ==
    /\ spc \in {"idle", "fetched", "saved"}
    /\ stats' =
           IF ~ground_truth_file.exists
           THEN [outcome |-> "returned", saves |-> Len(save_log),
                 value |-> [error |-> "No ground truth dataset found."]]
           ELSE IF StatsRaises(LoadGroundTruthOf(ground_truth_file))
           THEN [outcome |-> "ZeroDivisionError", saves |-> Len(save_log)]
           ELSE [outcome |-> "returned", saves |-> Len(save_log),
                 value |-> DatasetStats(LoadGroundTruthOf(ground_truth_file),
                                        videos_dir)]
    /\ UNCHANGED <<analysis_tbl, overrides_tbl, df, fetch_path,
                   ground_truth_file, spc, loaded, save_log, sync_no, metrics,
                   parseVars, evalVars, downloadVars,
                   pureVars>>

\* the remote store has changed and the next pass starts
SyncAgain ==
    /\ spc = "saved"
    /\ sync_no < MaxSyncs
    /\ \E store \in SnapshotStores :
           /\ analysis_tbl' = store.analysis
           /\ overrides_tbl' = store.overrides
    /\ df' = <<>>
    /\ fetch_path' = "none"
    /\ spc' = "idle"
    /\ sync_no' = sync_no + 1
    /\ loaded' = NotCalled
    /\ stats' = NotCalled
    /\ UNCHANGED <<ground_truth_file, save_log, metrics, parseVars, evalVars,
                   downloadVars,
                   pureVars>>

NextSnapshot ==
    \/ FetchRpc
    \/ FetchFallback
    \/ SaveGroundTruth
    \/ LoadGroundTruth
    \/ GetDatasetStats
    \/ SyncAgain

SpecSnapshot == InitSnapshot /\ [][NextSnapshot]_vars

(***************************************************************************)
(* SpecCost: ModelEvaluator._estimate_cost on a model name, a number of    *)
(* bytes and a number of characters.                                       *)
(* A price is a whole number of units of 0.025 USD per 1M tokens, and a    *)
(* cost a whole number of units of 0.025 / 1,000,000 USD.                  *)
(***************************************************************************)
\* lines 27-31: 0.075 and 0.30, 0.075 and 0.30, 3.50 and 10.50 USD
ModelPricing ==
    (<<"models", "/", "gemini-2.5-flash">> :> [input |-> 3, output |-> 12])
    @@ (<<"models", "/", "gemini-2.5-flash-lite">> :>
            [input |-> 3, output |-> 12])
    @@ (<<"models", "/", "gemini-2.5-pro">> :> [input |-> 140, output |-> 420])

CostModelNames ==
    DOMAIN ModelPricing
        \cup {<<"gemini-2.5-flash">>, <<"models", "/", "gemini-1.5-flash">>}

VideoSizes == {0, 999, 999999, 1000000, 1000500, 1001000, 1500000}
OutputLengths == {0, 3, 399, 400, 402, 404, 1000}

Max(a, b) == IF a > b THEN a ELSE b

InitCost ==
    /\ cost_args \in [model_name : CostModelNames,
                      video_size_bytes : VideoSizes,
                      output_length : OutputLengths]
    /\ cost = NotCalled
    /\ metrics = None
    /\ ParseIdle
    /\ EvalIdle
    /\ SyncIdle
    /\ MatrixIdle
    /\ ErrorsIdle
    /\ LaterIdle

\* a / b rounded up
CeilDiv(a, b) == (a + b - 1) \div b

\* lines 205-206: a // b
FloorDiv(a, b) == a \div b

\* line 205
EstimatedInputTokens(video_size_bytes) ==
    Max(1000, FloorDiv(video_size_bytes, 1000))

\* line 206
EstimatedOutputTokens(output_length) == Max(100, FloorDiv(output_length, 4))

\* lines 196-211
EstimateCostOf(model_name, video_size_bytes, output_length) ==
    IF model_name \notin DOMAIN ModelPricing THEN 0
    ELSE LET pricing == ModelPricing[model_name]
             input_cost ==
                 EstimatedInputTokens(video_size_bytes) * pricing.input
             output_cost ==
                 EstimatedOutputTokens(output_length) * pricing.output
         IN  input_cost + output_cost

\* lines 196-211
EstimateCost ==
    /\ cost = NotCalled
    /\ cost' = [outcome |-> "returned",
                value |-> EstimateCostOf(cost_args.model_name,
                                         cost_args.video_size_bytes,
                                         cost_args.output_length)]
    /\ UNCHANGED <<cost_args, metrics, parseVars, evalVars, syncVars,
                   matrixVars, errorVars, laterVars>>

NextCost == EstimateCost

SpecCost == InitCost /\ [][NextCost]_vars

(***************************************************************************)
(* SpecMatrix: EvaluationMetrics._build_confusion_matrix (metrics.py) on a *)
(* confusion dict and a list of labels.  A key of the dict is a text of    *)
(* tokens: labels and the arrow " -> ".  The dict is the sequence of its   *)
(* items, in the order of insertion.                                       *)
(***************************************************************************)
Arrow == " -> "

\* the key "<gt> -> <pred>" of evaluator.py lines 247 and 259
TransitionKey(gt, pred) == gt \o <<Arrow>> \o pred

\* keys of two labels, among them labels of no label list; a key without
\* arrow; and keys whose prediction holds an arrow itself
TransitionKeys ==
    {TransitionKey(<<g>>, <<q>>) :
        g \in {"lay_up", "make", "miss"},
        q \in {"lay_up", "mid_range", "make", "miss", "dunk"}}
    \cup {<<"lay_up">>,
          TransitionKey(<<"lay_up">>, <<"a", Arrow, "b">>),
          TransitionKey(<<"make">>, <<"a", Arrow, "b">>)}

Counts == {1, 3}

ConfusionDicts ==
    {d \in UNION {[1..n -> [key : TransitionKeys, count : Counts]] :
                     n \in 0..MaxKeys} :
        \A i, j \in 1..Len(d) : i # j => d[i].key # d[j].key}

\* metrics.py lines 23-24: self.shot_types and self.results
LabelLists ==
    {<<"lay_up", "in_paint", "mid_range", "three_pointer", "free_throw">>,
     <<"make", "miss">>}

InitMatrix ==
    /\ matrix_args \in [confusion_dict : ConfusionDicts, labels : LabelLists]
    /\ matrix = NotCalled
    /\ metrics = None
    /\ ParseIdle
    /\ EvalIdle
    /\ SyncIdle
    /\ CostIdle
    /\ ErrorsIdle
    /\ LaterIdle

\* str.split(sep) on a text of tokens: the texts between the separators
RECURSIVE SplitOn(_, _)
SplitOn(text, sep) ==
    IF \A i \in 1..Len(text) : text[i] # sep THEN <<text>>
    ELSE LET i == CHOOSE k \in 1..Len(text) :
                      text[k] = sep /\ \A l \in 1..(k - 1) : text[l] # sep
         IN  <<SubSeq(text, 1, i - 1)>>
                 \o SplitOn(SubSeq(text, i + 1, Len(text)), sep)

\* line 241: " -> " in transition
HasArrow(transition) == \E i \in 1..Len(transition) : transition[i] = Arrow

\* line 243: label in labels, for the text of a label
IsLabel(part, labels) == \E i \in 1..Len(labels) : part = <<labels[i]>>

\* lines 244-245: labels.index(label)
IndexOf(part, labels) ==
    CHOOSE i \in 1..Len(labels) :
        part = <<labels[i]>> /\ \A k \in 1..(i - 1) : part # <<labels[k]>>

\* line 238: np.zeros((len(labels), len(labels)), dtype=int)
Zeros(n) == [i \in 1..n |-> [j \in 1..n |-> 0]]

\* line 242: the unpacking into true_label, pred_label raises ValueError
UnpackRaises(transition) ==
    HasArrow(transition) /\ Len(SplitOn(transition, Arrow)) # 2

\* line 246: matrix[true_idx][pred_idx] = count
CellSet(cell, count) == count

\* lines 241-246: one item of the dict
MatrixStep(acc, item, labels) ==
    IF ~HasArrow(item.key) THEN acc
    ELSE LET parts == SplitOn(item.key, Arrow)
             true_label == parts[1]
             pred_label == parts[2]
         IN  IF IsLabel(true_label, labels) /\ IsLabel(pred_label, labels)
             THEN [acc EXCEPT ![IndexOf(true_label, labels)]
                                  [IndexOf(pred_label, labels)] =
                                      CellSet(@, item.count)]
             ELSE acc

\* lines 240-246
RECURSIVE MatrixLoop(_, _, _)
MatrixLoop(acc, items, labels) ==
    IF items = <<>> THEN acc
    ELSE MatrixLoop(MatrixStep(acc, Head(items), labels), Tail(items), labels)

\* lines 236-248
BuildConfusionMatrix ==
    /\ matrix = NotCalled
    /\ matrix' =
           IF \E i \in 1..Len(matrix_args.confusion_dict) :
                  UnpackRaises(matrix_args.confusion_dict[i].key)
           THEN [outcome |-> "ValueError"]
           ELSE [outcome |-> "returned",
                 value |-> MatrixLoop(Zeros(Len(matrix_args.labels)),
                                      matrix_args.confusion_dict,
                                      matrix_args.labels),
                 labels |-> matrix_args.labels]
    /\ UNCHANGED <<matrix_args, metrics, parseVars, evalVars, syncVars,
                   costVars, errorVars, laterVars>>

NextMatrix == BuildConfusionMatrix

SpecMatrix == InitMatrix /\ [][NextMatrix]_vars

(***************************************************************************)
(* SpecErrors: EvaluationMetrics.generate_error_analysis (metrics.py) on   *)
(* the data of a run.  evaluate_model hands _calculate_metrics the results *)
(* before it saves or returns them, and that raises on a prediction that   *)
(* is no dict: the predictions of the data of a run are dicts.             *)
(***************************************************************************)
\* the ground truths of a snapshot: shot_type and result are the values of
\* the analysis or the override, each of which may be null
ErrorGroundTruths == GroundTruths \cup {[shot_type |-> None, result |-> None]}

\* the predictions _parse_model_output returns for the provider's texts
DictPredictions ==
    {ParseModelOutput(raw) :
        raw \in {t \in ProviderTexts \cup {Dumps("D", FALSE)} :
                    IsDict(ParseModelOutput(t))}}

\* eval_data['results'] of at most n results: entry i has clip_id i
EvalResults(n) ==
    UNION {{[i \in 1..k |-> [clip_id |-> i, ground_truth |-> g[i],
                              prediction |-> q[i]]] :
                g \in [1..k -> ErrorGroundTruths],
                q \in [1..k -> DictPredictions]} : k \in 0..n}

InitErrors ==
    /\ eval_data \in {[results |-> rs] : rs \in EvalResults(MaxResults)}
    /\ errors = NotCalled
    /\ metrics = None
    /\ ParseIdle
    /\ EvalIdle
    /\ SyncIdle
    /\ CostIdle
    /\ MatrixIdle
    /\ LaterIdle

\* d.get(k, default)
GetOr(d, k, default) == IF k \in DOMAIN d THEN d[k] ELSE default

\* line 279: 'error' in pred
HasParseError(pred) == "error" \in DOMAIN pred

\* lines 256-266: the values the loop compares
Compared(result) ==
    LET gt == result.ground_truth
        pred == result.prediction.members
    IN  [gt_shot_type |-> gt.shot_type,
         gt_result |-> gt.result,
         pred_shot_type |-> MetricsNormalizeShotType(Get(pred, "range")),
         pred_result |-> MetricsNormalizeResult(Get(pred, "make_miss"))]

\* lines 265-266
ShotTypeCorrect(result) ==
    Compared(result).gt_shot_type = Compared(result).pred_shot_type

ResultCorrect(result) ==
    Compared(result).gt_result = Compared(result).pred_result

\* line 268
IsErrorRow(result) == ~(ShotTypeCorrect(result) /\ ResultCorrect(result))

\* lines 269-280; the inference time is a measurement and is left out
ErrorRow(result) ==
    [clip_id |-> result.clip_id,
     gt_shot_type |-> Compared(result).gt_shot_type,
     pred_shot_type |-> Compared(result).pred_shot_type,
     shot_type_error |-> ~ShotTypeCorrect(result),
     gt_result |-> Compared(result).gt_result,
     pred_result |-> Compared(result).pred_result,
     result_error |-> ~ResultCorrect(result),
     confidence |-> GetOr(result.prediction.members, "confidence", 0),
     has_parse_error |-> HasParseError(result.prediction.members)]

\* lines 253-281
RECURSIVE ErrorRows(_)
ErrorRows(rs) ==
    IF rs = <<>> THEN <<>>
    ELSE (IF IsErrorRow(Head(rs)) THEN <<ErrorRow(Head(rs))>> ELSE <<>>)
             \o ErrorRows(Tail(rs))

\* lines 250-283
GenerateErrorAnalysis ==
    /\ errors = NotCalled
    /\ errors' = [outcome |-> "returned", rows |-> ErrorRows(eval_data.results)]
    /\ UNCHANGED <<eval_data, metrics, parseVars, evalVars, syncVars,
                   costVars, matrixVars, laterVars>>

NextErrors == GenerateErrorAnalysis

SpecErrors == InitErrors /\ [][NextErrors]_vars

(***************************************************************************)
(* SpecAggregate: EvaluationMetrics.load_evaluation_results and            *)
(* create_comparison_dataframe (metrics.py) on the output directory that   *)
(* calls of evaluate_model have written to.  The directory is the variable *)
(* artifacts, and write_log holds the writes that made it.  A write that   *)
(* was cut off (the process stopped, the disk was full) leaves a file that *)
(* is no JSON text.                                                        *)
(***************************************************************************)
\* the content of a file whose json.dump did not finish
Truncated == [cut |-> TRUE]

\* evaluator.py lines 82-91: a result, with the fields the comparison reads
TimedSamples ==
    [clip_id : {1}, ground_truth : {ParseGroundTruth},
     prediction : {ParseModelOutput(Dumps("A", FALSE))},
     inference_time_s : {1, 2}, cost_usd : {3}]

SavedResults(n) == UNION {[1..k -> TimedSamples] : k \in 0..n}

\* the arguments and the clock of the calls of _save_results so far
SavedRuns(n) ==
    {saves \in UNION {[1..k -> [config : {c \in Configs :
                                             /\ c.fps = 24
                                             /\ c.media_resolution = "MEDIUM"
                                             /\ c.max_samples = NoLimit},
                                timestamp : 0..MaxTime,
                                results : SavedResults(MaxSamples),
                                cut : BOOLEAN]] : k \in 0..n} :
        \A i \in 1..(Len(saves) - 1) :
            saves[i].timestamp <= saves[i + 1].timestamp}

\* evaluator.py lines 100-103 and 332-346: what call i of the saves wrote
WriteOf(saves, i) ==
    LET save == saves[i]
        data == OutputData(save.config, save.timestamp,
                           CalculateMetrics(save.results), save.results)
    IN  [run |-> i, path |-> OutputPath(save.config, save.timestamp),
         content |-> IF save.cut THEN Truncated ELSE data]

\* the files after the writes of a log
RECURSIVE Persist(_, _)
Persist(files, log) ==
    IF log = <<>> THEN files
    ELSE Persist(WriteFile(files, Head(log).path, Head(log).content),
                 Tail(log))

InitAggregate ==
    /\ \E saves \in SavedRuns(MaxSaved) :
           /\ write_log = [i \in 1..Len(saves) |-> WriteOf(saves, i)]
           /\ artifacts = Persist(EmptyDict, write_log)
    /\ all_results = NotCalled
    /\ comparison = NotCalled
    /\ metrics = None
    /\ RunIdle
    /\ ParseIdle
    /\ SyncIdle
    /\ CostIdle
    /\ MatrixIdle
    /\ ErrorsIdle
    /\ LabelsIdle
    /\ WorkerIdle

\* line 31: the directories under results_path
ModelDirs(files) == {path.model_dir : path \in DOMAIN files}

\* line 36: model_dir.glob("*.json")
FilesOf(files, model_dir) ==
    {path \in DOMAIN files : path.model_dir = model_dir}

\* the orders in which a directory listing can give a set of files
Listings(paths) ==
    {l \in [1..Cardinality(paths) -> paths] :
        \A i, j \in 1..Cardinality(paths) : i # j => l[i] # l[j]}

\* line 38: json.load raises on a text that is no JSON
LoadRaises(files) == \E path \in DOMAIN files : files[path] = Truncated

\* lines 26-41: a key of the result is the name of a directory (lines
\* 33-34), its list the files of the directory in the order of the listing
LoadEvaluationResults ==
    /\ all_results = NotCalled
    /\ IF LoadRaises(artifacts)
       THEN all_results' = [outcome |-> "JSONDecodeError"]
       ELSE \E order \in [ModelDirs(artifacts) ->
                             UNION {Listings(FilesOf(artifacts, d)) :
                                        d \in ModelDirs(artifacts)}] :
                /\ \A d \in ModelDirs(artifacts) :
                       order[d] \in Listings(FilesOf(artifacts, d))
                /\ all_results' =
                       [outcome |-> "returned",
                        value |-> [model_name \in ModelDirs(artifacts) |->
                                      [i \in 1..Len(order[model_name]) |->
                                          artifacts[order[model_name][i]]]]]
    /\ UNCHANGED <<comparison, metrics, parseVars, evalVars, syncVars,
                   costVars, matrixVars, errorVars, labelVars, workerVars>>

\* line 63: np.mean, kept as the pair <<sum, count>>; for an empty list it
\* is 0 / 0, which numpy gives as nan with a RuntimeWarning and no exception
Mean(xs) == <<Sum(xs), Len(xs)>>

\* lines 63-65: the values of a field over the results
FieldOf(rs, field) == [i \in 1..Len(rs) |-> rs[i][field]]

\* line 65: sum / len if results else 0
CostPerSample(rs) ==
    IF rs # <<>> THEN <<Sum(FieldOf(rs, "cost_usd")), Len(rs)>> ELSE <<0, 1>>

\* lines 49-67
ComparisonRow(model_name, data) ==
    [model_name |-> model_name,
     fps |-> GetOr(data.configuration, "fps", 24),
     media_resolution |->
         GetOr(data.configuration, "media_resolution", "MEDIUM"),
     total_samples |-> GetOr(data.metrics, "total_samples", 0),
     valid_predictions |-> GetOr(data.metrics, "valid_predictions", 0),
     average_inference_time |->
         Mean(FieldOf(data.results, "inference_time_s")),
     total_cost |-> Sum(FieldOf(data.results, "cost_usd")),
     cost_per_sample |-> CostPerSample(data.results),
     evaluation_timestamp |-> data.evaluation_timestamp]

\* lines 47-68: the rows of the keys in an order the dict gives them
RECURSIVE ComparisonRows(_, _)
ComparisonRows(value, keys) ==
    IF keys = <<>> THEN <<>>
    ELSE [i \in 1..Len(value[Head(keys)]) |->
             ComparisonRow(Head(keys), value[Head(keys)][i])]
             \o ComparisonRows(value, Tail(keys))

\* lines 43-70
CreateComparisonDataframe ==
    /\ all_results.outcome = "returned"
    /\ comparison = NotCalled
    /\ \E keys \in Listings(DOMAIN all_results.value) :
           comparison' = [outcome |-> "returned",
                          rows |-> ComparisonRows(all_results.value, keys)]
    /\ UNCHANGED <<all_results, metrics, parseVars, evalVars, syncVars,
                   costVars, matrixVars, errorVars, labelVars, workerVars>>

NextAggregate == LoadEvaluationResults \/ CreateComparisonDataframe

SpecAggregate == InitAggregate /\ [][NextAggregate]_vars

(***************************************************************************)
(* SpecLabels: the label normalizers, as ModelEvaluator (evaluator.py) and *)
(* EvaluationMetrics (metrics.py) each define them, called on labels.      *)
(***************************************************************************)
\* the labels the normalizers are called on: a string or None
Labels ==
    {None, "", "LAY_UP", "lay_up", "Lay_Up", "MID_RANGE", "Dunk", "DUNK",
     "MAKE", "make", "Make", "MISS", " MAKE"}

Normalizers ==
    {"evaluator.shot_type", "evaluator.result",
     "metrics.shot_type", "metrics.result"}

Normalized(fn, label) ==
    CASE fn = "evaluator.shot_type" -> NormalizeShotType(label)
      [] fn = "evaluator.result" -> NormalizeResult(label)
      [] fn = "metrics.shot_type" -> MetricsNormalizeShotType(label)
      [] fn = "metrics.result" -> MetricsNormalizeResult(label)

InitLabels ==
    /\ label_in = None
    /\ label_out = <<>>
    /\ metrics = None
    /\ ParseIdle
    /\ EvalIdle
    /\ SyncIdle
    /\ CostIdle
    /\ MatrixIdle
    /\ ErrorsIdle
    /\ AggregateIdle
    /\ WorkerIdle

\* one call of a normalizer; label_out holds the calls so far
NormalizeLabel ==
    /\ Len(label_out) < MaxCalls
    /\ \E fn \in Normalizers, label \in Labels :
           /\ label_in' = label
           /\ label_out' = Append(label_out,
                                  [fn |-> fn, label |-> label,
                                   value |-> Normalized(fn, label)])
    /\ UNCHANGED <<metrics, parseVars, evalVars, syncVars, costVars,
                   matrixVars, errorVars, aggVars, workerVars>>

NextLabels == NormalizeLabel

SpecLabels == InitLabels /\ [][NextLabels]_vars

(***************************************************************************)
(* SpecWorker: the worker endpoint analyze (python-worker/modal_app.py).   *)
(* Requests arrive at any time and run concurrently; a step of a request   *)
(* is a stretch of its code with at most one call to the database, the     *)
(* storage or the provider.  The answer of a request is the status code    *)
(* the function returns next to its body.  A header or token is a text of  *)
(* tokens; None is a missing header.                                       *)
(***************************************************************************)
\* the values of WORKER_AUTH_TOKEN in the environment, which the secret of
\* the deployment sets (line 199): a token, and the token followed by a line
\* break
WorkerTokens == {<<"t">>, <<"t", "\n">>}

\* AnalyzeBody, lines 32-36
Payloads ==
    [x_worker_auth : {None, <<"t">>, <<"t", "\n">>, <<"x">>},
     clip_id : {"c1"}, storage_key : {"k"}]
    \cup [x_worker_auth : {<<"t">>}, clip_id : {"", "c1"},
          storage_key : {"", "k"}]

\* the analysis records of clip c1: none, or the record a1, pending
AnalysisRecords == {EmptyDict, [a \in {"a1"} |-> "pending"]}

InitWorker ==
    /\ worker_token \in WorkerTokens
    /\ analysis_db \in AnalysisRecords
    /\ requests = <<>>
    /\ status_log = <<>>
    /\ effects = {}
    /\ metrics = None
    /\ ParseIdle
    /\ EvalIdle
    /\ SyncIdle
    /\ CostIdle
    /\ MatrixIdle
    /\ ErrorsIdle
    /\ AggregateIdle
    /\ LabelsIdle

\* line 201: a request arrives
Receive ==
    /\ Len(requests) < MaxRequests
    /\ \E payload \in Payloads :
           requests' = Append(requests,
                              [payload |-> payload, pc |-> "auth",
                               analysis_id |-> None, answer |-> 0])
    /\ UNCHANGED <<worker_token, analysis_db, status_log, effects, metrics,
                   parseVars, evalVars, syncVars, costVars, matrixVars,
                   errorVars, aggVars, labelVars>>

\* lines 44-47: _assert_auth raises PermissionError
Unauthorized(header_val, token) ==
    \/ header_val = None
    \/ header_val = <<>>
    \/ Strip(header_val) # token

\* request r is at pc and moves to next, with the answer given
Moves(r, next, answer) ==
    requests' = [requests EXCEPT ![r].pc = next, ![r].answer = answer]

Did(r, kind) == [req |-> r, kind |-> kind]

\* lines 204-211 and 295-318: authentication and the check of the payload
Authorize(r) ==
    /\ requests[r].pc = "auth"
    /\ IF Unauthorized(requests[r].payload.x_worker_auth, worker_token)
       THEN Moves(r, "done", 401)
       ELSE IF requests[r].payload.clip_id = ""
               \/ requests[r].payload.storage_key = ""
       THEN Moves(r, "done", 422)
       ELSE Moves(r, "lookup", 0)
    /\ UNCHANGED <<worker_token, analysis_db, status_log, effects, metrics,
                   parseVars, evalVars, syncVars, costVars, matrixVars,
                   errorVars, aggVars, labelVars>>

\* lines 141-154: the latest analysis record of the clip
LatestAnalysis(db, clip_id) ==
    IF clip_id = "c1" /\ "a1" \in DOMAIN db THEN "a1" ELSE None

\* lines 213-216: _find_latest_analysis_for_clip returns a record, returns
\* None (404), or raises (lines 298-318 with no analysis_id: 500)
Lookup(r) ==
    /\ requests[r].pc = "lookup"
    /\ effects' = effects \cup {Did(r, "lookup")}
    /\ \E raised \in BOOLEAN :
           LET found == LatestAnalysis(analysis_db,
                                       requests[r].payload.clip_id)
           IN  IF raised THEN Moves(r, "done", 500)
               ELSE IF found = None THEN Moves(r, "done", 404)
               ELSE requests' = [requests EXCEPT ![r].pc = "mark",
                                                 ![r].analysis_id = found]
    /\ UNCHANGED <<worker_token, analysis_db, status_log, metrics,
                   parseVars, evalVars, syncVars, costVars, matrixVars,
                   errorVars, aggVars, labelVars>>

\* lines 157-171: the update of the record with the id, whatever its status
\* is; a call that raises has changed nothing
UpdateAnalysis(r, status, applied) ==
    /\ effects' = effects \cup {Did(r, "update")}
    /\ IF applied
       THEN /\ analysis_db' =
                   [analysis_db EXCEPT ![requests[r].analysis_id] = status]
            /\ status_log' =
                   Append(status_log,
                          [req |-> r, id |-> requests[r].analysis_id,
                           from |-> analysis_db[requests[r].analysis_id],
                           to |-> status])
       ELSE UNCHANGED <<analysis_db, status_log>>

\* line 217
MarkProcessing(r) ==
    /\ requests[r].pc = "mark"
    /\ \E applied \in BOOLEAN :
           /\ UpdateAnalysis(r, "processing", applied)
           /\ Moves(r, IF applied THEN "work" ELSE "handler", 0)
    /\ UNCHANGED <<worker_token, metrics, parseVars, evalVars, syncVars,
                   costVars, matrixVars, errorVars, aggVars, labelVars>>

\* the calls of lines 219-269 in their order, and how far a request gets
WorkSteps == <<"signed_url", "download", "inference", "parse">>

\* lines 219-269: the signed URL, the download, the inference and the
\* parsing of the answer; the first n of them are made, and step n raises
\* unless all are made
Work(r) ==
    /\ requests[r].pc = "work"
    /\ \E n \in 1..Len(WorkSteps), raised \in BOOLEAN :
           /\ raised \/ n = Len(WorkSteps)
           /\ effects' = effects \cup {Did(r, WorkSteps[k]) : k \in 1..n}
           /\ Moves(r, IF raised THEN "handler" ELSE "finish", 0)
    /\ UNCHANGED <<worker_token, analysis_db, status_log, metrics,
                   parseVars, evalVars, syncVars, costVars, matrixVars,
                   errorVars, aggVars, labelVars>>

\* lines 271-293
MarkSuccess(r) ==
    /\ requests[r].pc = "finish"
    /\ \E applied \in BOOLEAN :
           /\ UpdateAnalysis(r, "success", applied)
           /\ IF applied THEN Moves(r, "done", 200)
              ELSE Moves(r, "handler", 0)
    /\ UNCHANGED <<worker_token, metrics, parseVars, evalVars, syncVars,
                   costVars, matrixVars, errorVars, aggVars, labelVars>>

\* lines 298-318: the handler of an exception after analysis_id was set; an
\* update that raises is passed over (lines 315-317)
HandleException(r) ==
    /\ requests[r].pc = "handler"
    /\ \E applied \in BOOLEAN : UpdateAnalysis(r, "failed", applied)
    /\ Moves(r, "done", 500)
    /\ UNCHANGED <<worker_token, metrics, parseVars, evalVars, syncVars,
                   costVars, matrixVars, errorVars, aggVars, labelVars>>

NextWorker ==
    \/ Receive
    \/ \E r \in 1..Len(requests) :
           \/ Authorize(r)
           \/ Lookup(r)
           \/ MarkProcessing(r)
           \/ Work(r)
           \/ MarkSuccess(r)
           \/ HandleException(r)

SpecWorker == InitWorker /\ [][NextWorker]_vars




(***************************************************************************)
(* Claims about the synchronizer, checked under SpecSync.                  *)
(***************************************************************************)
Fetched == spc \in {"fetched", "saved"}

\* the rows of analysis_overrides for one analysis and field
OverridesOf(analysis_id, field_name) ==
    {i \in 1..Len(overrides_tbl) :
        /\ overrides_tbl[i].analysis_id = analysis_id
        /\ overrides_tbl[i].field_name = field_name}

\* value is what the override with the greatest created_at holds, or the
\* original value when there is no override
ResolvedFrom(analysis_id, field_name, original, value) ==
    LET mine == OverridesOf(analysis_id, field_name)
    IN  IF mine = {} THEN value = original
        ELSE \E j \in mine :
                 /\ \A k \in mine :
                        overrides_tbl[k].created_at <= overrides_tbl[j].created_at
                 /\ value = overrides_tbl[j].override_value

\* C1: override resolution.  In every row the synchronizer produces, on
\* either fetch path, the ground truth of shot_type and of result is the
\* override_value of an override of that analysis and field whose created_at
\* is the greatest, and the analysis's original value when the analysis has
\* no override of that field.
C1_OverrideResolution ==
    Fetched =>
        \A i \in 1..Len(df) :
            /\ ResolvedFrom(df[i].analysis_id, "shot_type",
                            df[i].original_shot_type,
                            df[i].ground_truth_shot_type)
            /\ ResolvedFrom(df[i].analysis_id, "result",
                            df[i].original_result,
                            df[i].ground_truth_result)

\* C1 witness: the fallback has resolved a field that has two overrides, the
\* newer one first in the table, to the newer one's value; another row keeps
\* its original value.
C1_Witness ==
    /\ spc = "fetched"
    /\ fetch_path = "fallback"
    /\ Len(overrides_tbl) = 2
    /\ overrides_tbl[1].analysis_id = overrides_tbl[2].analysis_id
    /\ overrides_tbl[1].field_name = "shot_type"
    /\ overrides_tbl[2].field_name = "shot_type"
    /\ overrides_tbl[1].created_at > overrides_tbl[2].created_at
    /\ overrides_tbl[1].override_value # overrides_tbl[2].override_value
    /\ \E i \in 1..Len(df) :
           /\ df[i].analysis_id = overrides_tbl[1].analysis_id
           /\ df[i].ground_truth_shot_type = overrides_tbl[1].override_value
           /\ df[i].ground_truth_result = df[i].original_result

\* what a row says of its ground truth
RowKey(row) ==
    <<row.clip_id, row.analysis_id, row.ground_truth_shot_type,
      row.ground_truth_result>>

RowSet(rows) == {RowKey(rows[i]) : i \in 1..Len(rows)}

\* no two overrides of one analysis and field have the same created_at, so
\* the joined query has one result
NoTiedOverrides ==
    \A i, j \in 1..Len(overrides_tbl) :
        (/\ i # j
         /\ overrides_tbl[i].analysis_id = overrides_tbl[j].analysis_id
         /\ overrides_tbl[i].field_name = overrides_tbl[j].field_name)
        => overrides_tbl[i].created_at # overrides_tbl[j].created_at

\* C2: fallback join equivalence.  Whatever the store holds, the rows of the
\* joined query and the rows _process_fallback_data rebuilds from the three
\* tables are the same set (clip_id, analysis_id, resolved shot_type and
\* result); stated for the stores in which the newest override of a field is
\* unique.
C2_FallbackJoinEquivalence ==
    (Fetched /\ NoTiedOverrides) =>
        RowSet(df) = RowSet(ProcessFallbackData(
                                Clips, SuccessfulAnalysis(analysis_tbl),
                                overrides_tbl))

\* a table with its rows in another order
Reordered(tbl, order) == [i \in 1..Len(tbl) |-> tbl[order[i]]]

\* C25: deterministic reconciliation.  The rows the fallback reconstruction
\* gives depend only on the set of clip, analysis and override rows:
\* whatever the order in which the store returns the override rows and the
\* analysis rows, the resolved ground-truth values are the same.
C25_OrderIndependentFallback ==
    fetch_path = "fallback" =>
        \A p \in Permutations(1..Len(overrides_tbl)),
           q \in Permutations(1..Len(analysis_tbl)) :
            RowSet(ProcessFallbackData(
                       Clips,
                       SuccessfulAnalysis(Reordered(analysis_tbl, q)),
                       Reordered(overrides_tbl, p))) = RowSet(df)

\* C3: snapshot uniqueness.  The snapshot a synchronization pass saves holds
\* at most one entry per clip_id, on either fetch path.
C3_SnapshotUniqueClipIds ==
    ground_truth_file.exists =>
        \A i, j \in 1..Len(ground_truth_file.entries) :
            i # j => ground_truth_file.entries[i].clip_id #
                         ground_truth_file.entries[j].clip_id

(***************************************************************************)
(* Claims about evaluate_model, checked under SpecEval.                    *)
(***************************************************************************)
\* C4: the run never aborts.  Whatever the dataset (of at least one entry),
\* the per-sample failures and the raw texts returned, evaluate_model skips
\* the failing samples, computes the metrics and returns without raising.
C4_RunNeverAborts == Len(ground_truth_data) > 0 => epc # "raised"

\* every entry taken so far whose file exists has given a result that is a dict
OnlyMissingSkipped ==
    /\ Len(results) =
           Cardinality({i \in 1..pos : video_exists[ground_truth_data[i].clip_id]})
    /\ \A j \in 1..Len(results) : IsDict(results[j].prediction)

\* C5: skip on missing media.  The entries whose video file is absent are
\* left out of results, no provider call is made for them, every result
\* belongs to an entry whose file exists, and evaluate_model does not raise
\* (stated for the runs of a dataset with entries in which nothing but
\* missing files went wrong).
C5_SkipOnMissingMedia ==
    /\ (Len(ground_truth_data) > 0 /\ OnlyMissingSkipped) => epc # "raised"
    /\ \A i \in 1..pos :
           ~video_exists[ground_truth_data[i].clip_id] =>
               /\ ground_truth_data[i].clip_id \notin calls
               /\ \A j \in 1..Len(results) :
                      results[j].clip_id # ground_truth_data[i].clip_id
    /\ \A j \in 1..Len(results) : video_exists[results[j].clip_id]

MetricsComputed == epc \in {"save", "return", "done"} /\ results # <<>>

\* the results that carry a parse error, and the others
ErrorSamples ==
    {i \in 1..Len(results) :
        Get(results[i].prediction.members, "error") = "Failed to parse JSON"}

ValidSamples == (1..Len(results)) \ ErrorSamples

PredShotType(i) == NormalizeShotType(Get(results[i].prediction.members, "range"))
PredResult(i) == NormalizeResult(Get(results[i].prediction.members, "make_miss"))
GtShotType(i) == results[i].ground_truth.shot_type
GtResult(i) == results[i].ground_truth.result

\* the pair r = <<numerator, denominator>> is the fraction a / b
RatioIs(r, a, b) == r[1] * b = a * r[2]

\* C8: metrics denominators.  For a run with n > 0 results of which k carry
\* a parse error, valid_predictions is n - k, parse_success_rate is
\* (n - k) / n and, when n - k > 0, each of the three accuracies is the
\* number of valid samples counted correct divided by n - k.
C8_MetricsDenominators ==
    MetricsComputed =>
        LET n == Len(results)
            k == Cardinality(ErrorSamples)
        IN  /\ metrics.total_samples = n
            /\ metrics.valid_predictions = n - k
            /\ RatioIs(metrics.parse_success_rate, n - k, n)
            /\ n - k > 0 =>
                /\ RatioIs(metrics.shot_type_accuracy,
                           Cardinality({i \in ValidSamples :
                                           /\ GtShotType(i) # None
                                           /\ GtShotType(i) = PredShotType(i)}),
                           n - k)
                /\ RatioIs(metrics.result_accuracy,
                           Cardinality({i \in ValidSamples :
                                           /\ GtResult(i) # None
                                           /\ GtResult(i) = PredResult(i)}),
                           n - k)
                /\ RatioIs(metrics.both_correct_accuracy,
                           Cardinality({i \in ValidSamples :
                                           /\ GtShotType(i) = PredShotType(i)
                                           /\ GtResult(i) = PredResult(i)}),
                           n - k)

\* C8 witness: a finished run of three results, one of them a parse error,
\* one of the two valid ones with the right shot type.
C8_Witness ==
    /\ epc = "done"
    /\ Len(results) = 3
    /\ Cardinality(ErrorSamples) = 1
    /\ metrics.valid_predictions = 2
    /\ metrics.parse_success_rate = <<2, 3>>
    /\ metrics.shot_type_accuracy = <<1, 2>>

\* C9: a sample counts as correct only with both sides non-null.  The
\* samples counted in shot_type_accuracy, result_accuracy and
\* both_correct_accuracy are at most the valid samples whose ground truth
\* and normalized prediction are non-null and equal in the field, and for
\* both_correct in both fields.
C9_CorrectOnlyWhenNonNull ==
    (MetricsComputed /\ ValidSamples # {}) =>
        /\ metrics.shot_type_accuracy[1] <=
               Cardinality({i \in ValidSamples :
                               /\ GtShotType(i) # None
                               /\ PredShotType(i) # None
                               /\ GtShotType(i) = PredShotType(i)})
        /\ metrics.result_accuracy[1] <=
               Cardinality({i \in ValidSamples :
                               /\ GtResult(i) # None
                               /\ PredResult(i) # None
                               /\ GtResult(i) = PredResult(i)})
        /\ metrics.both_correct_accuracy[1] <=
               Cardinality({i \in ValidSamples :
                               /\ GtShotType(i) # None
                               /\ PredShotType(i) # None
                               /\ GtResult(i) # None
                               /\ PredResult(i) # None
                               /\ GtShotType(i) = PredShotType(i)
                               /\ GtResult(i) = PredResult(i)})

ShotLabels == {"lay_up", "in_paint", "mid_range", "three_pointer", "free_throw"}
ResultLabels == {"make", "miss"}

CountOf(confusion, key) == IF key \in DOMAIN confusion THEN confusion[key] ELSE 0

RECURSIVE SumOver(_, _)
SumOver(confusion, keys) ==
    IF keys = {} THEN 0
    ELSE LET key == CHOOSE x \in keys : TRUE
         IN confusion[key] + SumOver(confusion, keys \ {key})

GtOf(dimension, i) ==
    IF dimension = "shot_type" THEN GtShotType(i) ELSE GtResult(i)

PredOf(dimension, i) ==
    IF dimension = "shot_type" THEN PredShotType(i) ELSE PredResult(i)

\* one dimension's confusion dict against the results it was built from
ConfusionAgrees(dimension, confusion, labels, correct) ==
    LET valid == ValidSamples
        gt == [i \in valid |-> GtOf(dimension, i)]
        pred == [i \in valid |-> PredOf(dimension, i)]
    IN  /\ \A g \in labels, p \in labels :
               CountOf(confusion, ConfusionKey(g, p)) =
                   Cardinality({i \in valid : gt[i] = g /\ pred[i] = p})
        /\ \A key \in DOMAIN confusion :
               /\ confusion[key] >= 1
               /\ \E g \in labels, p \in labels : key = ConfusionKey(g, p)
        /\ SumOver(confusion, DOMAIN confusion) <= metrics.valid_predictions
        /\ SumOver(confusion, {ConfusionKey(g, g) : g \in labels}
                                  \cap DOMAIN confusion) = correct

\* C10: confusion accumulation.  In each dimension the count under
\* "g -> p" is the number of valid results with ground truth g and normalized
\* prediction p, both non-null; no key has a null side; the counts sum to at
\* most valid_predictions and those with g = p to the dimension's correct
\* count.
C10_ConfusionAccumulation ==
    MetricsComputed =>
        /\ ConfusionAgrees("shot_type", metrics.shot_type_confusion_matrix,
                           ShotLabels,
                           IF ValidSamples = {} THEN 0
                           ELSE metrics.shot_type_accuracy[1])
        /\ ConfusionAgrees("result", metrics.result_confusion_matrix,
                           ResultLabels,
                           IF ValidSamples = {} THEN 0
                           ELSE metrics.result_accuracy[1])

\* C10 witness: three valid results, two of them lay_up taken for lay_up and
\* one lay_up taken for mid_range.
C10_Witness ==
    /\ epc = "done"
    /\ metrics.valid_predictions = 3
    /\ DOMAIN metrics.shot_type_confusion_matrix =
           {"lay_up -> lay_up", "lay_up -> mid_range"}
    /\ metrics.shot_type_confusion_matrix["lay_up -> lay_up"] = 2
    /\ metrics.shot_type_confusion_matrix["lay_up -> mid_range"] = 1

(***************************************************************************)
(* Claims about the artifacts of evaluate_model, checked under SpecRuns.   *)
(***************************************************************************)
\* what identifies the artifact of a write
IdentityOf(content) ==
    <<content.model_name, content.evaluation_timestamp,
      content.configuration.fps, content.configuration.media_resolution>>

\* every run that saved so far had results to save
RunsHadResults ==
    \A i \in 1..Len(write_log) : write_log[i].content.results # <<>>

\* C11: run artifacts are append-only.  After any sequence of runs there are
\* as many artifact files as runs that saved results, every file a run wrote
\* still holds what that run wrote, and two runs that differ in
\* (model_name, timestamp, fps, resolution) wrote two different files
\* (stated for the runs that had results to save).
C11_ArtifactsAppendOnly ==
    RunsHadResults =>
        /\ Cardinality(DOMAIN artifacts) = Len(write_log)
        /\ \A i \in 1..Len(write_log) :
               /\ write_log[i].path \in DOMAIN artifacts
               /\ artifacts[write_log[i].path] = write_log[i].content
        /\ \A i, j \in 1..Len(write_log) :
               IdentityOf(write_log[i].content) # IdentityOf(write_log[j].content)
                   => write_log[i].path # write_log[j].path

\* the artifact files the current call has written
WritesOfCall ==
    Cardinality({i \in 1..Len(write_log) : write_log[i].run = run_no})

\* C12: artifacts are written only after a full run.  A call of
\* evaluate_model writes no artifact before it has attempted or skipped
\* every entry of the (truncated) dataset and computed the metrics, it
\* writes at most one, a call that returns has written exactly one, and a
\* call that raises has written none (stated for a dataset with entries).
C12_ArtifactAfterFullRun ==
    Len(dataset) > 0 =>
    /\ WritesOfCall > 0 =>
           /\ epc \in {"return", "done", "raised"}
           /\ pos = Len(ground_truth_data)
    /\ WritesOfCall <= 1
    /\ epc = "done" => WritesOfCall = 1
    /\ epc = "raised" => WritesOfCall = 0

\* the entries evaluate_model is to attempt when max_samples is n >= 0
PrefixLength(max_samples) ==
    IF max_samples = NoLimit THEN Len(dataset)
    ELSE IF max_samples[1] < Len(dataset) THEN max_samples[1]
    ELSE Len(dataset)

\* C18: max_samples truncation is a deterministic prefix.  With max_samples
\* an integer n >= 0 only the first min(n, len(dataset)) entries are
\* attempted, in snapshot order, all of them once the loop has ended;
\* without max_samples every entry is attempted; and results holds at most
\* one SampleResult per attempted entry, in the order of the entries.
C18_MaxSamplesPrefix ==
    (config.max_samples = NoLimit \/ config.max_samples[1] >= 0) =>
        /\ pos <= PrefixLength(config.max_samples)
        /\ \A i \in 1..pos : ground_truth_data[i] = dataset[i]
        /\ epc # "loop" => pos = PrefixLength(config.max_samples)
        /\ \A j \in 1..Len(results) :
               /\ results[j].clip_id \in 1..pos
               /\ results[j].ground_truth =
                      dataset[results[j].clip_id].ground_truth
               /\ \A k \in 1..Len(results) :
                      j < k => results[j].clip_id < results[k].clip_id

(***************************************************************************)
(* Claims about download_missing_videos, checked under SpecDownload.       *)
(***************************************************************************)
\* the clip_ids of a sequence of rows or attempts, in order
ClipIdsOf(rows) == [i \in 1..Len(rows) |-> rows[i].clip_id]

\* the attempts that ended well
Succeeded(attempt) == attempt.outcome = "ok"

\* the rows whose file was absent when the call scanned
ScannedAbsent(row) == scanned[row.clip_id] = "absent"

\* C13: download_missing_videos never aborts on a single failure.  Whatever
\* way each attempt ends, the call attempts every row whose file was missing,
\* once and in order, and returns the clip_ids of exactly the attempts that
\* succeeded; a clip whose file existed is not attempted, its file is left
\* as it was and it is not returned.
C13_DownloadNeverAborts ==
    /\ dpc \in {"download", "done"} =>
           /\ ClipIdsOf(attempt_log) =
                  SubSeq(ClipIdsOf(SelectSeq(df, ScannedAbsent)), 1, dl_pos)
           /\ downloaded = ClipIdsOf(SelectSeq(attempt_log, Succeeded))
           /\ \A c \in ClipIds :
                  scanned[c] # "absent" =>
                      /\ videos_dir[c] = scanned[c]
                      /\ \A i \in 1..Len(attempt_log) :
                             attempt_log[i].clip_id # c
                      /\ \A i \in 1..Len(downloaded) : downloaded[i] # c
    /\ dpc = "done" =>
           Len(attempt_log) = Len(SelectSeq(df, ScannedAbsent))

\* C13 witness: the first call downloaded c1 and failed on c2; the second
\* call has returned, it left c1's file alone, attempted c2 once and
\* returned it.
C13_Witness ==
    /\ dpc = "done"
    /\ pass_no = 2
    /\ ClipIdsOf(df) = <<"c2", "c1">>
    /\ scanned = [c \in ClipIds |-> IF c = "c1" THEN "complete" ELSE "absent"]
    /\ attempt_log = <<[clip_id |-> "c2", outcome |-> "ok"]>>
    /\ downloaded = <<"c2">>
    /\ videos_dir = [c \in ClipIds |-> "complete"]

\* C14: media files are written atomically.  In every state a file
\* <clip_id>.mp4 is absent or holds the complete downloaded bytes, so the
\* scan of a later call and evaluate_model, which take a file that exists as
\* downloaded, never take a partly written one.
C14_AtomicMediaWrites ==
    \A c \in ClipIds : videos_dir[c] \in {"absent", "complete"}

(***************************************************************************)
(* Claims about the snapshot, checked under SpecSnapshot.                  *)
(***************************************************************************)
\* C15: the snapshot is an overwrite-only register.  load_ground_truth
\* raises FileNotFoundError exactly when nothing has been saved yet;
\* otherwise it returns the entries of the rows of the most recent save and
\* nothing else; and two saves of the same rows write the same file.
C15_SnapshotRegister ==
    /\ ground_truth_file.exists <=> save_log # <<>>
    /\ loaded.outcome # "none" =>
           (loaded.outcome = "FileNotFoundError" <=> loaded.saves = 0)
    /\ loaded.outcome = "returned" =>
           loaded.value = GroundTruthOf(save_log[loaded.saves].rows)
    /\ \A i, j \in 1..Len(save_log) :
           save_log[i].rows = save_log[j].rows =>
               save_log[i].entries = save_log[j].entries

\* C15 witness: after a save of two rows and a later save of one row,
\* load_ground_truth has returned the one entry of the later save.
C15_Witness ==
    /\ Len(save_log) = 2
    /\ Len(save_log[1].rows) = 2
    /\ Len(save_log[2].rows) = 1
    /\ loaded.outcome = "returned"
    /\ loaded.saves = 2
    /\ Len(loaded.value) = 1
    /\ loaded.value[1].ground_truth.shot_type = "three_pointer"

\* the entries whose ground truth differs from the original analysis
Differing(entries) ==
    {i \in 1..Len(entries) :
        \/ entries[i].ground_truth.shot_type #
               entries[i].original_analysis.shot_type
        \/ entries[i].ground_truth.result #
               entries[i].original_analysis.result}

\* C16: correction_rate.  For every snapshot load_ground_truth returns,
\* get_dataset_stats returns, and its correction_rate is the number of
\* entries whose ground truth differs from the original analysis in
\* shot_type or result, divided by the number of entries: a number from 0
\* to 1, 1 when every entry differs and 0 when none does.
C16_CorrectionRate ==
    (stats.outcome # "none" /\ stats.saves > 0) =>
        LET entries == GroundTruthOf(save_log[stats.saves].rows)
            n == Len(entries)
            k == Cardinality(Differing(entries))
        IN  /\ stats.outcome = "returned"
            /\ stats.value.correction_rate[2] > 0
            /\ stats.value.correction_rate[1] * n =
                   k * stats.value.correction_rate[2]
            /\ stats.value.correction_rate[1] >= 0
            /\ stats.value.correction_rate[1] <=
                   stats.value.correction_rate[2]
            /\ k = n => stats.value.correction_rate[1] =
                            stats.value.correction_rate[2]
            /\ k = 0 => stats.value.correction_rate[1] = 0

(***************************************************************************)
(* Claims about _estimate_cost, checked under SpecCost.                    *)
(***************************************************************************)
\* C17 as stated: the cost is 0 for a model without a price, and otherwise
\* input_units * input_price + output_units * output_price with
\* input_units = max(1000, input_bytes / 1000) and
\* output_units = max(100, output_chars / 4), the quotients not rounded
\* (both sides multiplied by 1000 * 4).
C17_EstimateCostHeuristic ==
    cost.outcome = "returned" =>
        IF cost_args.model_name \notin DOMAIN ModelPricing
        THEN cost.value = 0
        ELSE cost.value * 1000 * 4 =
                 Max(1000 * 1000, cost_args.video_size_bytes) * 4
                     * ModelPricing[cost_args.model_name].input
                 + Max(100 * 4, cost_args.output_length) * 1000
                     * ModelPricing[cost_args.model_name].output

\* C17 amended: the cost is 0 for a model without a price, and otherwise
\* input_units * input_price + output_units * output_price with
\* input_units = max(1000, input_bytes / 1000 rounded down) and
\* output_units = max(100, output_chars / 4 rounded down).
C17_EstimateCostFloor ==
    cost.outcome = "returned" =>
        IF cost_args.model_name \notin DOMAIN ModelPricing
        THEN cost.value = 0
        ELSE cost.value =
                 Max(1000, cost_args.video_size_bytes \div 1000)
                     * ModelPricing[cost_args.model_name].input
                 + Max(100, cost_args.output_length \div 4)
                       * ModelPricing[cost_args.model_name].output

\* C17 witness: the cost of 1,000,500 bytes and 402 characters at the
\* prices of gemini-2.5-pro, where rounding down matters.
C17_Witness ==
    /\ cost.outcome = "returned"
    /\ cost_args.model_name = <<"models", "/", "gemini-2.5-pro">>
    /\ cost_args.video_size_bytes = 1000500
    /\ cost_args.output_length = 402
    /\ cost.value = 1000 * 140 + 100 * 420

(***************************************************************************)
(* Claims about _build_confusion_matrix, checked under SpecMatrix.         *)
(***************************************************************************)
\* the count the dict holds under a key, 0 without the key
StoredCount(dict, key) ==
    IF \E i \in 1..Len(dict) : dict[i].key = key
    THEN LET i == CHOOSE k \in 1..Len(dict) : dict[k].key = key
         IN  dict[i].count
    ELSE 0

\* C19: the dense confusion matrix.  For every confusion dict and label
\* list _build_confusion_matrix returns, raising nothing, the square matrix
\* whose cell (i, j) is the count stored under "labels[i] -> labels[j]",
\* and 0 without that key; keys with a label outside the list change
\* nothing.
C19_DenseConfusionMatrix ==
    matrix.outcome # "none" =>
        /\ matrix.outcome = "returned"
        /\ Len(matrix.value) = Len(matrix_args.labels)
        /\ \A i, j \in 1..Len(matrix_args.labels) :
               /\ Len(matrix.value[i]) = Len(matrix_args.labels)
               /\ matrix.value[i][j] =
                      StoredCount(matrix_args.confusion_dict,
                                  TransitionKey(<<matrix_args.labels[i]>>,
                                                <<matrix_args.labels[j]>>))

(***************************************************************************)
(* Claims about generate_error_analysis, checked under SpecErrors.         *)
(***************************************************************************)
\* the rows of the table that carry a clip_id
RowsOf(clip_id) ==
    {k \in 1..Len(errors.rows) : errors.rows[k].clip_id = clip_id}

\* the shot type or the result of a sample is incorrect
Incorrect(result) ==
    \/ Compared(result).gt_shot_type # Compared(result).pred_shot_type
    \/ Compared(result).gt_result # Compared(result).pred_result

\* C20: the error table.  generate_error_analysis returns exactly one row
\* for each sample of the run whose shot type or result is incorrect and
\* none for a sample correct in both; every sample whose prediction is a
\* parse error has a row, with has_parse_error true, whatever its ground
\* truth is.
C20_ErrorTable ==
    errors.outcome # "none" =>
        /\ errors.outcome = "returned"
        /\ \A k \in 1..Len(errors.rows) :
               errors.rows[k].clip_id \in 1..Len(eval_data.results)
        /\ \A i \in 1..Len(eval_data.results) :
               LET result == eval_data.results[i]
                   parse_error == HasParseError(result.prediction.members)
               IN  /\ Cardinality(RowsOf(result.clip_id)) =
                          IF Incorrect(result) \/ parse_error THEN 1 ELSE 0
                   /\ parse_error =>
                          \A k \in RowsOf(result.clip_id) :
                              errors.rows[k].has_parse_error

(***************************************************************************)
(* Claims about load_evaluation_results and create_comparison_dataframe,   *)
(* checked under SpecAggregate.                                            *)
(***************************************************************************)
\* the places of the loaded mapping: a key and an index of its list
Places ==
    UNION {{<<key, i>> : i \in 1..Len(all_results.value[key])} :
               key \in DOMAIN all_results.value}

LoadedAt(place) == all_results.value[place[1]][place[2]]

\* C21: persist/load round trip.  After any sequence of saved runs,
\* load_evaluation_results returns every persisted run artifact exactly
\* once, and each artifact is listed under the key equal to its own
\* model_name.
C21_PersistLoadRoundTrip ==
    all_results.outcome = "returned" =>
        /\ \A k \in 1..Len(write_log) :
               Cardinality({place \in Places :
                               LoadedAt(place) = write_log[k].content}) = 1
        /\ \A place \in Places : LoadedAt(place).model_name = place[1]

\* C22: aggregation returns partial results.  When some file under the
\* results root is unreadable or malformed, or some artifact has no
\* samples, load_evaluation_results and create_comparison_dataframe still
\* complete and return all the other runs.
C22_AggregationPartialResults ==
    /\ all_results.outcome \in {"none", "returned"}
    /\ comparison.outcome \in {"none", "returned"}
    /\ all_results.outcome = "returned" =>
           \A path \in DOMAIN artifacts :
               artifacts[path] # Truncated =>
                   \E place \in Places : LoadedAt(place) = artifacts[path]
    /\ comparison.outcome = "returned" =>
           Len(comparison.rows) = Cardinality(Places)

\* a pair <<n, d>> is a number when d is not 0
IsNumber(ratio) == ratio[2] # 0

\* C23: the comparison table.  create_comparison_dataframe yields exactly
\* one row per loaded artifact; average_inference_time, total_cost and
\* cost_per_sample are computed from the artifact's results; and for an
\* artifact with no results the row is still produced with defined numeric
\* values.
C23_ComparisonRows ==
    comparison.outcome = "returned" =>
        /\ Len(comparison.rows) = Cardinality(Places)
        /\ \A place \in Places :
               \E k \in 1..Len(comparison.rows) :
                   LET row == comparison.rows[k]
                       rs == LoadedAt(place).results
                   IN  /\ row.model_name = place[1]
                       /\ row.evaluation_timestamp =
                              LoadedAt(place).evaluation_timestamp
                       /\ row.total_cost = Sum(FieldOf(rs, "cost_usd"))
                       /\ row.average_inference_time[1] =
                              Sum(FieldOf(rs, "inference_time_s"))
                       /\ row.average_inference_time[2] = Len(rs)
                       /\ row.cost_per_sample[1] = row.total_cost
        /\ \A k \in 1..Len(comparison.rows) :
               /\ IsNumber(comparison.rows[k].average_inference_time)
               /\ IsNumber(comparison.rows[k].cost_per_sample)

(***************************************************************************)
(* Claims about the label normalizers, checked under SpecLabels.           *)
(***************************************************************************)
\* the provider's vocabulary of ranges and the canonical label of each
RangeVocabulary ==
    {<<"LAY_UP", "lay_up">>, <<"IN_PAINT", "in_paint">>,
     <<"MID_RANGE", "mid_range">>, <<"THREE_POINTER", "three_pointer">>,
     <<"FREE_THROW", "free_throw">>}

\* the reference mapping of ranges
ReferenceRange(label) ==
    IF label = None \/ label = "" THEN None
    ELSE IF \E entry \in RangeVocabulary : Lower(label) = Lower(entry[1])
    THEN LET entry == CHOOSE e \in RangeVocabulary :
                          Lower(label) = Lower(e[1])
         IN  entry[2]
    ELSE Lower(label)

\* the reference mapping of results
ReferenceResult(label) ==
    IF label = None \/ label = "" THEN None
    ELSE IF Lower(label) = "make" THEN "make"
    ELSE IF Lower(label) = "miss" THEN "miss"
    ELSE None

\* C24: the label normalizers.  On every string or null input each
\* normalizer returns what the reference mapping gives: for a range, null
\* for null or empty input, the canonical label when the case-folded input
\* is an entry of the vocabulary, the lower-cased input otherwise; for a
\* result, make or miss on a case-folded exact match and null otherwise.
\* The copies of the run harness and of the aggregator return the same
\* value for the same input.
C24_LabelNormalizer ==
    \A i \in 1..Len(label_out) :
        LET call == label_out[i]
        IN  /\ call.fn \in {"evaluator.shot_type", "metrics.shot_type"} =>
                   call.value = ReferenceRange(call.label)
            /\ call.fn \in {"evaluator.result", "metrics.result"} =>
                   call.value = ReferenceResult(call.label)
            /\ \A j \in 1..Len(label_out) :
                   /\ label_out[j].label = call.label
                   /\ <<label_out[j].fn, call.fn>> \in
                          {<<"evaluator.shot_type", "metrics.shot_type">>,
                           <<"evaluator.result", "metrics.result">>}
                   => label_out[j].value = call.value

\* both copies were called on a range outside the vocabulary, in mixed case
C24_Witness ==
    /\ Len(label_out) = 2
    /\ label_out[1] = [fn |-> "evaluator.shot_type", label |-> "Dunk",
                       value |-> "dunk"]
    /\ label_out[2] = [fn |-> "metrics.shot_type", label |-> "Dunk",
                       value |-> "dunk"]

(***************************************************************************)
(* Claims about the worker endpoint, checked under SpecWorker.             *)
(***************************************************************************)
\* C26: the status state machine.  For any sequence or interleaving of
\* analyze requests, every status change the endpoint makes to an analysis
\* record is pending -> processing, processing -> success or
\* processing -> failed, and a record in success or failed is never changed
\* again.
C26_StatusStateMachine ==
    \A i \in 1..Len(status_log) :
        <<status_log[i].from, status_log[i].to>> \in
            {<<"pending", "processing">>, <<"processing", "success">>,
             <<"processing", "failed">>}

\* request r has set a record to processing
SetProcessing(r) ==
    \E i \in 1..Len(status_log) :
        status_log[i].req = r /\ status_log[i].to = "processing"

\* C27: no record is left in processing.  Every request that sets a
\* record's status to processing sets that record to success or failed
\* before it returns, whichever later step fails.
C27_NoRecordLeftProcessing ==
    \A r \in 1..Len(requests) :
        (requests[r].pc = "done" /\ SetProcessing(r)) =>
            \E i, j \in 1..Len(status_log) :
                /\ i < j
                /\ status_log[i].req = r
                /\ status_log[i].to = "processing"
                /\ status_log[j].req = r
                /\ status_log[j].id = status_log[i].id
                /\ status_log[j].to \in {"success", "failed"}

\* the calls request r has made
EffectsOf(r) == {e \in effects : e.req = r}

\* C28: unauthorized requests have no effect.  A request whose
\* x_worker_auth is missing or differs from WORKER_AUTH_TOKEN is answered
\* 401 and makes no analysis lookup, status update, storage download or
\* inference call; a request with the matching token is never answered 401.
C28_UnauthorizedNoEffect ==
    \A r \in 1..Len(requests) :
        LET header == requests[r].payload.x_worker_auth
        IN  /\ header = None =>
                   /\ EffectsOf(r) = {}
                   /\ requests[r].pc = "done" => requests[r].answer = 401
            /\ (header # None /\ header # worker_token) =>
                   /\ EffectsOf(r) = {}
                   /\ requests[r].pc = "done" => requests[r].answer = 401
            /\ (header # None /\ header = worker_token) =>
                   requests[r].answer # 401

\* _calculate_metrics leaves the sample out of valid_predictions
ExcludedFromValid(result) ==
    CalculateMetrics(<<result>>).valid_predictions = 0

\* C29: the run harness and the aggregator agree on parse errors.  For
\* every sample generate_error_analysis lists, _calculate_metrics leaves
\* it out of valid_predictions if and only if the row's has_parse_error is
\* true.
C29_ParseErrorAgreement ==
    errors.outcome = "returned" =>
        \A k \in 1..Len(errors.rows) :
            \A i \in 1..Len(eval_data.results) :
                eval_data.results[i].clip_id = errors.rows[k].clip_id =>
                    (ExcludedFromValid(eval_data.results[i])
                         <=> errors.rows[k].has_parse_error)

(***************************************************************************)
(* Claims about _parse_model_output, checked under SpecParse.              *)
(***************************************************************************)
Parsed == ppc \in {"parsed", "counted", "raised"}

\* text is the text of a JSON object
IsObjectText(text) == JsonLoads(text).ok /\ IsDict(JsonLoads(text).value)

\* neither the text left by fence stripping nor the text from the first "{"
\* to the last "}" is a JSON object
HoldsNoObject(raw) ==
    /\ ~IsObjectText(CleanMarkdown(raw))
    /\ ~(/\ Find(raw, "{") >= 0
         /\ RFind(raw, "}") > Find(raw, "{")
         /\ IsObjectText(SubSeq(raw, Find(raw, "{") + 1, RFind(raw, "}") + 1)))

\* C6: parse_output is total and yields a Prediction.  It returns a dict for
\* every raw text; for a text holding no parseable JSON object it returns the
\* sentinel (error set, raw_output the text, confidence 0.0, no tips), and
\* metrics aggregation counts that sample as invalid and does not raise.
C6_ParseTotalSentinel ==
    /\ Parsed => IsDict(prediction)
    /\ (Parsed /\ HoldsNoObject(raw_text)) =>
           prediction = JObj(ErrorResult(raw_text))
    /\ ppc # "raised"
    /\ (ppc = "counted" /\ HoldsNoObject(raw_text)) =>
           metrics.valid_predictions = 0

\* the dict with the members of token c
MembersOf(c) == IF c = None THEN EmptyDict ELSE ContentOf(c)

\* C7: parsing of wrapped output.  A JSON object between an opening fence
\* line (with or without the json tag) and a closing fence line parses to
\* exactly that object; and when the strict parse fails, a text whose first
\* "{" opens and whose last "}" closes a JSON object parses to that object.
C7_WrappedParse ==
    Parsed =>
        \A c \in ContentTokens \cup {None}, indent \in BOOLEAN :
            /\ \A tag \in Tags :
                   Strip(raw_text) = FenceWrap(tag, Dumps(c, indent)) =>
                       prediction = JObj(MembersOf(c))
            /\ ~JsonLoads(CleanMarkdown(raw_text)).ok =>
                   \A a, b \in 1..Len(raw_text) :
                       (/\ SubSeq(raw_text, a, b) = Dumps(c, indent)
                        /\ \A i \in 1..(a - 1) : raw_text[i] # "{"
                        /\ \A i \in (b + 1)..Len(raw_text) : raw_text[i] # "}")
                       => prediction = JObj(MembersOf(c))

\* C7 witness: the fenced, tagged object A has been parsed to A.
C7_Witness ==
    /\ ppc = "parsed"
    /\ raw_text = FenceWrap(<<"json">>, Dumps("A", FALSE))
    /\ prediction = JObj(ContentOf("A"))
    /\ "error" \notin DOMAIN prediction.members

=============================================================================
